---------------------------- MODULE Spec2Model ----------------------------
(***************************************************************************)
(* A model of the text engine of GitP001/Stock                             *)
(* (src/backend/api/summarize_service.py): the title normalizer, the text  *)
(* sanitizer, the sentence selector and the summary composer.               *)
(*                                                                         *)
(* Python strings are TLA+ strings.  A position is 1-based here; where the *)
(* source computes with 0-based indices (str.find, match.end, slices) the  *)
(* operators below take and return the source's 0-based numbers.           *)
(* TLA+ strings are ASCII: the en dash U+2013 is written "~", the em dash  *)
(* U+2014 is written "^" and the copyright sign U+00A9 is written "@".     *)
(***************************************************************************)
EXTENDS Integers, Sequences, FiniteSets, TLC

(***************************************************************************)
(* Characters and character classes                                        *)
(***************************************************************************)
UpperChars == {"A","B","C","D","E","F","G","H","I","J","K","L","M",
               "N","O","P","Q","R","S","T","U","V","W","X","Y","Z"}
LowerChars == {"a","b","c","d","e","f","g","h","i","j","k","l","m",
               "n","o","p","q","r","s","t","u","v","w","x","y","z"}
DigitChars == {"0","1","2","3","4","5","6","7","8","9"}
SpaceChars == {" ", "\t", "\n"}
WordChars == UpperChars \cup LowerChars \cup DigitChars \cup {"_"}
TerminalPunct == {".", "!", "?"}

ToLowerMap ==
  ("A" :> "a") @@ ("B" :> "b") @@ ("C" :> "c") @@ ("D" :> "d") @@ ("E" :> "e") @@
  ("F" :> "f") @@ ("G" :> "g") @@ ("H" :> "h") @@ ("I" :> "i") @@ ("J" :> "j") @@
  ("K" :> "k") @@ ("L" :> "l") @@ ("M" :> "m") @@ ("N" :> "n") @@ ("O" :> "o") @@
  ("P" :> "p") @@ ("Q" :> "q") @@ ("R" :> "r") @@ ("S" :> "s") @@ ("T" :> "t") @@
  ("U" :> "u") @@ ("V" :> "v") @@ ("W" :> "w") @@ ("X" :> "x") @@ ("Y" :> "y") @@
  ("Z" :> "z")
ToUpperMap ==
  ("a" :> "A") @@ ("b" :> "B") @@ ("c" :> "C") @@ ("d" :> "D") @@ ("e" :> "E") @@
  ("f" :> "F") @@ ("g" :> "G") @@ ("h" :> "H") @@ ("i" :> "I") @@ ("j" :> "J") @@
  ("k" :> "K") @@ ("l" :> "L") @@ ("m" :> "M") @@ ("n" :> "N") @@ ("o" :> "O") @@
  ("p" :> "P") @@ ("q" :> "Q") @@ ("r" :> "R") @@ ("s" :> "S") @@ ("t" :> "T") @@
  ("u" :> "U") @@ ("v" :> "V") @@ ("w" :> "W") @@ ("x" :> "X") @@ ("y" :> "Y") @@
  ("z" :> "Z")

LowerCh(c) == IF c \in UpperChars THEN ToLowerMap[c] ELSE c
UpperCh(c) == IF c \in LowerChars THEN ToUpperMap[c] ELSE c

Min(S) == CHOOSE x \in S : \A y \in S : x <= y
Max(S) == CHOOSE x \in S : \A y \in S : y <= x

(***************************************************************************)
(* Python str operations                                                   *)
(***************************************************************************)
\* s[i] of the source is Ch(s, i + 1)
Ch(s, p) == SubSeq(s, p, p)

\* a slice bound of Python: negative bounds count from the end, and both
\* ends are clamped into 0 .. len(s)
SliceBound(s, i) ==
  IF i < 0 THEN (IF Len(s) + i < 0 THEN 0 ELSE Len(s) + i)
  ELSE IF i > Len(s) THEN Len(s) ELSE i

\* s[lo:hi]
Slice(s, lo, hi) == SubSeq(s, SliceBound(s, lo) + 1, SliceBound(s, hi))
\* s[:hi]
Prefix(s, hi) == Slice(s, 0, hi)
\* s[lo:]
Suffix(s, lo) == Slice(s, lo, Len(s))

\* s.startswith(p), s.endswith(p)
StartsWith(s, p) == Len(p) <= Len(s) /\ SubSeq(s, 1, Len(p)) = p
EndsWith(s, p) == Len(p) <= Len(s) /\ SubSeq(s, Len(s) - Len(p) + 1, Len(s)) = p
\* s.endswith(('.', '!', '?'))
EndsWithPunct(s) == Len(s) > 0 /\ Ch(s, Len(s)) \in TerminalPunct

\* s.find(sub, start): the lowest 0-based index at or after start, or -1
FindFrom(s, sub, start) ==
  LET cand == (start + 1) .. (Len(s) - Len(sub) + 1)
  IN IF \E p \in cand : SubSeq(s, p, p + Len(sub) - 1) = sub
     THEN (CHOOSE p \in cand : SubSeq(s, p, p + Len(sub) - 1) = sub
                               /\ \A q \in (start + 1) .. (p - 1) :
                                    SubSeq(s, q, q + Len(sub) - 1) # sub) - 1
     ELSE -1
Find(s, sub) == FindFrom(s, sub, 0)
\* s.rfind(sub): the highest 0-based index, or -1
RFind(s, sub) ==
  LET hit == {p \in 1 .. (Len(s) - Len(sub) + 1) : SubSeq(s, p, p + Len(sub) - 1) = sub}
  IN IF hit = {} THEN -1 ELSE Max(hit) - 1
\* sub in s
Contains(s, sub) == Find(s, sub) # -1

\* s.count(sub) for a one-character sub
CountCh(s, c) == Cardinality({p \in 1 .. Len(s) : Ch(s, p) = c})

\* the concatenation of f[lo] .. f[hi]; halving keeps the recursion shallow
RECURSIVE ConcatRange(_, _, _)
ConcatRange(f, lo, hi) ==
  IF lo > hi THEN ""
  ELSE IF lo = hi THEN f[lo]
  ELSE LET mid == (lo + hi) \div 2
       IN ConcatRange(f, lo, mid) \o ConcatRange(f, mid + 1, hi)

\* s.lower()
Lower(s) == ConcatRange([p \in 1 .. Len(s) |-> LowerCh(Ch(s, p))], 1, Len(s))
\* s.capitalize(): first character upper, the rest lower
Capitalize(s) ==
  IF s = "" THEN "" ELSE UpperCh(Ch(s, 1)) \o Lower(SubSeq(s, 2, Len(s)))
\* s[0].upper() + s[1:] when s[0].islower()
UpperFirst(s) ==
  IF s # "" /\ Ch(s, 1) \in LowerChars
  THEN UpperCh(Ch(s, 1)) \o SubSeq(s, 2, Len(s)) ELSE s

\* s.strip()
Strip(s) ==
  LET ink == {p \in 1 .. Len(s) : Ch(s, p) \notin SpaceChars}
  IN IF ink = {} THEN "" ELSE SubSeq(s, Min(ink), Max(ink))

\* sep.join(parts)
Join(parts, sep) ==
  ConcatRange([k \in 1 .. Len(parts) |->
                 IF k = 1 THEN parts[k] ELSE sep \o parts[k]], 1, Len(parts))

\* s.split(sep, 1) when sep occurs in s
SplitOnce(s, sep) ==
  LET at == Find(s, sep)
  IN <<Prefix(s, at), Suffix(s, at + Len(sep))>>

\* s.replace(old, new): every non-overlapping occurrence, left to right
RECURSIVE ReplaceFrom(_, _, _, _)
ReplaceFrom(s, old, new, start) ==
  LET at == FindFrom(s, old, start)
  IN IF at = -1 THEN Suffix(s, start)
     ELSE Slice(s, start, at) \o new \o ReplaceFrom(s, old, new, at + Len(old))
Replace(s, old, new) == ReplaceFrom(s, old, new, 0)

\* a sequence given by a rule, with its elements computed once
Listed(f) == f \o <<>>
\* the elements of a sequence, as a set
Range(f) == {f[k] : k \in 1 .. Len(f)}
\* sorted(f) for a sequence of numbers, equal elements kept
Sorted(f) ==
  Listed([r \in 1 .. Len(f) |->
            f[CHOOSE k \in 1 .. Len(f) :
                Cardinality({h \in 1 .. Len(f) :
                               f[h] < f[k] \/ (f[h] = f[k] /\ h < k)}) = r - 1]])
\* f[lo] + ... + f[hi]
RECURSIVE SumRange(_, _, _)
SumRange(f, lo, hi) ==
  IF lo > hi THEN 0
  ELSE IF lo = hi THEN f[lo]
  ELSE LET mid == (lo + hi) \div 2
       IN SumRange(f, lo, mid) + SumRange(f, mid + 1, hi)
Sum(f) == SumRange(f, 1, Len(f))
\* the sequences f[lo] .. f[hi] one after the other
RECURSIVE CatRange(_, _, _)
CatRange(f, lo, hi) ==
  IF lo > hi THEN <<>>
  ELSE IF lo = hi THEN f[lo]
  ELSE LET mid == (lo + hi) \div 2
       IN CatRange(f, lo, mid) \o CatRange(f, mid + 1, hi)

\* s.split(): the maximal runs of non-whitespace, in order
SplitWords(s) ==
  LET n == Len(s)
      IsInk(p) == p >= 1 /\ p <= n /\ Ch(s, p) \notin SpaceChars
      EndOf(a) == CHOOSE b \in a .. n : ~IsInk(b + 1) /\ \A q \in a .. b : IsInk(q)
  IN CatRange([p \in 1 .. n |->
                 IF IsInk(p) /\ ~IsInk(p - 1) THEN <<SubSeq(s, p, EndOf(p))>> ELSE <<>>],
              1, n)

\* the pieces of s around cuts, a set of <<first, last>> pairs of positions
\* that do not overlap: what str.split and re.split return
PiecesAround(s, cuts) ==
  LET m == Cardinality(cuts)
      Nth(k) == CHOOSE c \in cuts : Cardinality({d \in cuts : d[1] < c[1]}) = k - 1
  IN Listed([k \in 1 .. m + 1 |->
               SubSeq(s, IF k = 1 THEN 1 ELSE Nth(k - 1)[2] + 1,
                         IF k = m + 1 THEN Len(s) ELSE Nth(k)[1] - 1)])
\* the maximal runs of whitespace of s, as <<first, last>>
SpaceRuns(s) ==
  LET n == Len(s)
      IsSp(p) == p >= 1 /\ p <= n /\ Ch(s, p) \in SpaceChars
      EndOf(a) == CHOOSE b \in a .. n : ~IsSp(b + 1) /\ \A q \in a .. b : IsSp(q)
  IN {<<a, EndOf(a)>> : a \in {p \in 1 .. n : IsSp(p) /\ ~IsSp(p - 1)}}
\* len(s.split())
WordCount(s) == Len(SplitWords(s))

(***************************************************************************)
(* Regular expressions (Python's re), as far as the source uses them.  A   *)
(* pattern is a sequence of atoms; ReMatch follows the backtracking order  *)
(* of re: alternatives left to right, a greedy repetition longest first, a *)
(* lazy one shortest first.                                                *)
(***************************************************************************)
\* a literal, or literals tried in order: (a|b|c)
Alt(strs) == [k |-> "lit", alts |-> strs]
Lit(str) == Alt(<<str>>)
\* a repeated character class; max = -1 is unbounded
Rep(S, neg, lo, hi, lazy) ==
  [k |-> "cls", set |-> S, neg |-> neg, min |-> lo, max |-> hi, lazy |-> lazy]
One(S) == Rep(S, FALSE, 1, 1, FALSE)            \* [S]
Opt(S) == Rep(S, FALSE, 0, 1, FALSE)            \* [S]?
Star(S) == Rep(S, FALSE, 0, -1, FALSE)          \* [S]*
Plus(S) == Rep(S, FALSE, 1, -1, FALSE)          \* [S]+
AtLeast(S, lo) == Rep(S, FALSE, lo, -1, FALSE)  \* [S]{lo,}
AnyOne == Rep({"\n"}, TRUE, 1, 1, FALSE)        \* .
AnyLazyStar == Rep({"\n"}, TRUE, 0, -1, TRUE)   \* .*?
AnyLazyPlus == Rep({"\n"}, TRUE, 1, -1, TRUE)   \* .+?
AtEnd == [k |-> "end"]                          \* $
\* w1\s+w2\s+...\s+wn for words without whitespace
Words(ws) == [k |-> "words", words |-> ws]
Behind(S) == [k |-> "behind", set |-> S]        \* (?<=[S])
Ahead(S) == [k |-> "ahead", set |-> S]          \* (?=[S])

\* the position after words[lo] \s+ ... \s+ words[hi] standing at position p
\* of s, or 0.  Each \s+ has to take the whole run of whitespace, as the word
\* after it begins with another character; halving keeps the recursion shallow.
RECURSIVE WordsEnd(_, _, _, _, _)
WordsEnd(words, lo, hi, s, p) ==
  IF lo = hi
  THEN IF /\ p + Len(words[lo]) - 1 <= Len(s)
          /\ SubSeq(s, p, p + Len(words[lo]) - 1) = words[lo]
       THEN p + Len(words[lo]) ELSE 0
  ELSE LET mid == (lo + hi) \div 2
           left == WordsEnd(words, lo, mid, s, p)
           gap == Min({q \in left .. Len(s) + 1 : q > Len(s) \/ Ch(s, q) \notin SpaceChars})
       IN IF left = 0 \/ gap = left THEN 0 ELSE WordsEnd(words, mid + 1, hi, s, gap)

\* the position after the match of atoms j.. of re that starts at position p
\* of s, or 0 when there is none
RECURSIVE ReMatch(_, _, _, _)
ReMatch(re, j, s, p) ==
  IF j > Len(re) THEN p
  ELSE
    LET a == re[j]
        n == Len(s)
    IN CASE a.k = "lit" ->
              \* <<m, after>>: alternative m stands at p and the rest of the
              \* pattern matches up to after
              LET tried == {<<m, ReMatch(re, j + 1, s, p + Len(a.alts[m]))>> :
                              m \in {i \in 1 .. Len(a.alts) :
                                       /\ p + Len(a.alts[i]) - 1 <= n
                                       /\ SubSeq(s, p, p + Len(a.alts[i]) - 1) = a.alts[i]}}
                  fits == {t \in tried : t[2] # 0}
              IN IF fits = {} THEN 0
                 ELSE (CHOOSE t \in fits : \A u \in fits : t[1] <= u[1])[2]
         [] a.k = "cls" ->
              \* <<c, after>>: c characters of the class are taken and the rest
              \* of the pattern matches up to after
              LET In(q) == q <= n /\ ((Ch(s, q) \in a.set) # a.neg)
                  stop == CHOOSE q \in p .. n + 1 : ~In(q) /\ \A r \in p .. q - 1 : In(r)
                  run == IF a.max # -1 /\ stop - p > a.max THEN a.max ELSE stop - p
                  tried == {<<c, ReMatch(re, j + 1, s, p + c)>> : c \in a.min .. run}
                  ok == {t \in tried : t[2] # 0}
              IN IF ok = {} THEN 0
                 ELSE IF a.lazy THEN (CHOOSE t \in ok : \A u \in ok : t[1] <= u[1])[2]
                 ELSE (CHOOSE t \in ok : \A u \in ok : t[1] >= u[1])[2]
         [] a.k = "words" ->
              LET after == WordsEnd(a.words, 1, Len(a.words), s, p)
              IN IF after = 0 THEN 0 ELSE ReMatch(re, j + 1, s, after)
         [] a.k = "end" ->
              IF p = n + 1 \/ (p = n /\ Ch(s, n) = "\n")
              THEN ReMatch(re, j + 1, s, p) ELSE 0
         [] a.k = "behind" ->
              IF p > 1 /\ Ch(s, p - 1) \in a.set THEN ReMatch(re, j + 1, s, p) ELSE 0
         [] a.k = "ahead" ->
              IF p <= n /\ Ch(s, p) \in a.set THEN ReMatch(re, j + 1, s, p) ELSE 0

\* re.search from position start on: <<first, after>> of the leftmost match,
\* or <<0, 0>>.  A pattern that begins with a literal can only match where
\* the first character of one of its alternatives stands.
ReSearchFrom(re, s, start) ==
  LET n == Len(s)
      heads == CASE re[1].k = "lit" -> {Ch(re[1].alts[m], 1) : m \in 1 .. Len(re[1].alts)}
                 [] re[1].k = "words" -> {Ch(re[1].words[1], 1)}
                 [] OTHER -> {}
      hits == {p \in start .. n + 1 :
                 /\ re[1].k \in {"lit", "words"} => (p <= n /\ Ch(s, p) \in heads)
                 /\ ReMatch(re, 1, s, p) # 0}
  IN IF hits = {} THEN <<0, 0>> ELSE <<Min(hits), ReMatch(re, 1, s, Min(hits))>>
ReSearch(re, s) == ReSearchFrom(re, s, 1)
\* re.search over the alternatives of a pattern written out one by one: the
\* 0-based start of the leftmost match of any of them, or -1
ReSearchStartAny(res, s) ==
  LET starts == {ReSearch(re, s)[1] : re \in res} \ {0}
  IN IF starts = {} THEN -1 ELSE Min(starts) - 1

\* re.sub(re, repl, s) for a pattern that matches no empty string; the
\* matches are found in t, which is s or s.lower() (re.IGNORECASE)
RECURSIVE ReSubFrom(_, _, _, _, _)
ReSubFrom(re, repl, s, t, start) ==
  LET m == ReSearchFrom(re, t, start)
  IN IF m[1] = 0 THEN SubSeq(s, start, Len(s))
     ELSE SubSeq(s, start, m[1] - 1) \o repl \o ReSubFrom(re, repl, s, t, m[2])
ReSub(re, repl, s) == ReSubFrom(re, repl, s, s, 1)

\* re.finditer(re, s): the matches from position start on, as <<first, last>>
RECURSIVE ReFindSpans(_, _, _)
ReFindSpans(re, s, start) ==
  LET m == ReSearchFrom(re, s, start)
  IN IF m[1] = 0 THEN {} ELSE {<<m[1], m[2] - 1>>} \cup ReFindSpans(re, s, m[2])
\* [m.end() for m in re.finditer(re, s)], as a set of 0-based ends
ReFindEnds(re, s, start) == {m[2] : m \in ReFindSpans(re, s, start)}
\* re.split(re, s)
ReSplit(re, s) == PiecesAround(s, ReFindSpans(re, s, 1))

\* re.sub(r'\s+', ' ', s): each maximal run of whitespace becomes one space
CollapseSpace(s) ==
  ConcatRange([p \in 1 .. Len(s) |->
                 IF Ch(s, p) \notin SpaceChars THEN Ch(s, p)
                 ELSE IF p > 1 /\ Ch(s, p - 1) \in SpaceChars THEN "" ELSE " "],
              1, Len(s))

\* set(re.findall(r'\b\w+\b', s)): the maximal runs of word characters
WordSet(s) ==
  LET n == Len(s)
      IsW(p) == p >= 1 /\ p <= n /\ Ch(s, p) \in WordChars
      starts == {p \in 1 .. n : IsW(p) /\ ~IsW(p - 1)}
      EndOf(a) == CHOOSE b \in a .. n : ~IsW(b + 1) /\ \A q \in a .. b : IsW(q)
  IN {SubSeq(s, a, EndOf(a)) : a \in starts}


(***************************************************************************)
(* enhance_title: normalization (steps 1 to 7)                             *)
(***************************************************************************)
\* r'\s*\([A-Z]+:[A-Z]+\)'
TickerRe ==
  <<Star(SpaceChars), Lit("("), Plus(UpperChars), Lit(":"), Plus(UpperChars), Lit(")")>>
\* step 1: re.sub(TickerRe, '', title)
StripTickers(title) == ReSub(TickerRe, "", title)

redundant_prefixes ==
  <<"BREAKING: ", "Breaking: ", "UPDATE: ", "Update: ", "EXCLUSIVE: ", "Exclusive: ",
    "REPORT: ", "Report: ", "WATCH: ", "Watch: ", "JUST IN: ", "Just In: ",
    "VIDEO: ", "Video: ", "ANALYSIS: ", "Analysis: ", "FEATURED: ", "Featured: ",
    "ALERT: ", "Alert: ", "TRENDING: ", "Trending: ">>
\* step 2: the first prefix of the catalogue the title starts with is cut
StripPrefix(title) ==
  LET hit == {k \in 1 .. Len(redundant_prefixes) : StartsWith(title, redundant_prefixes[k])}
  IN IF hit = {} THEN title ELSE Suffix(title, Len(redundant_prefixes[Min(hit)]))

\* step 3: re.sub(r'\.{3,}$', '', title.strip()), then re.sub(r'\s*\.\.\.$', '', title)
StripEllipsis(title) ==
  ReSub(<<Star(SpaceChars), Lit("..."), AtEnd>>, "",
        ReSub(<<AtLeast({"."}, 3), AtEnd>>, "", Strip(title)))

\* step 4: ' '.join(title.split())
StripWhitespace(title) == Join(SplitWords(title), " ")

filler_phrases ==
  <<" according to sources", " according to reports", " according to insiders",
    " sources say", " reports indicate", " experts say", " analysts believe",
    ", experts say", ", analysts say", ", sources say", ", reports indicate",
    " - report", " - sources", " - analysts", " - insiders", " report claims",
    " analysts report", " sources claim", ", report says", ", report claims">>
\* step 5, for one phrase: when it occurs in title.lower(), the phrase and its
\* capitalize() form are replaced by ''
RemoveFiller(title, phrase) ==
  IF Contains(Lower(title), phrase)
  THEN Replace(Replace(title, phrase, ""), Capitalize(phrase), "")
  ELSE title

common_companies ==
  <<"Amazon", "Amazon.com", "Apple", "Microsoft", "Google", "Meta",
    "Facebook", "Tesla", "Nvidia", "Broadcom", "Alphabet">>
\* a company name put into a pattern unescaped: its "." matches any character
CompanyAtoms(company_lower) ==
  LET dot == Find(company_lower, ".")
  IN IF dot = -1 THEN <<Lit(company_lower)>>
     ELSE <<Lit(Prefix(company_lower, dot)), AnyOne, Lit(Suffix(company_lower, dot + 1))>>
\* (\s+\w+) k times
SpaceWordTimes(k) ==
  [i \in 1 .. 2 * k |-> IF i % 2 = 1 THEN Plus(SpaceChars) ELSE Plus(WordChars)]
\* rf'{company_lower}(\s+\w+){{1,3}}$' matches somewhere
CompanyNearEnd(company_lower, title_lower) ==
  \E k \in 1 .. 3 :
    ReSearch(CompanyAtoms(company_lower) \o SpaceWordTimes(k) \o <<AtEnd>>,
             title_lower)[1] # 0
\* re.search(rf'(,?\s+|-\s+)({company_lower}(\s+\w+){{0,3}})$', title_lower).start(),
\* or -1 when there is no match
CompanyEndStart(company_lower, title_lower) ==
  ReSearchStartAny(
    {lead \o CompanyAtoms(company_lower) \o SpaceWordTimes(k) \o <<AtEnd>> :
       lead \in {<<Opt({","}), Plus(SpaceChars)>>, <<Lit("-"), Plus(SpaceChars)>>},
       k \in 0 .. 3},
    title_lower)
\* the body of the loop over common_companies, for one company
StripCompany(title, company) ==
  LET company_lower == Lower(company)
      title_lower == Lower(title)
      end_start == CompanyEndStart(company_lower, title_lower)
      cut == Prefix(title, end_start)
      dotted == IF EndsWithPunct(cut) THEN cut ELSE cut \o "."
  IN IF /\ StartsWith(title_lower, company_lower)
        /\ (EndsWith(title_lower, company_lower)
            \/ CompanyNearEnd(company_lower, title_lower))
        /\ end_start # -1
     THEN ReSub(<<Plus({",", "-"} \cup SpaceChars), Lit("."), AtEnd>>, ".", dotted)
     ELSE title
(***************************************************************************)
(* enhance_title: the shortening rules.  A rule yields                     *)
(* [kind |-> "return", value |-> s], [kind |-> "raise"] (an exception the  *)
(* try block catches) or [kind |-> "pass"] (the next rule is tried).       *)
(***************************************************************************)
Return(s) == [kind |-> "return", value |-> s]
Raise == [kind |-> "raise"]
Pass == [kind |-> "pass"]

\* 7a: the title has a colon
ColonRule(title, max_length) ==
  IF ~Contains(title, ": ") THEN Pass
  ELSE
    LET parts == SplitOnce(title, ": ")
        before == SplitWords(parts[1])
        first_word == Lower(before[Len(before)])
        company_part == Join(SubSeq(before, 1, Len(before) - 1), " ")
        combined == company_part \o " " \o first_word \o ": " \o parts[2]
    IN IF Len(parts[2]) > 25 /\ CountCh(parts[2], " ") >= 3
       THEN IF /\ Ch(parts[2], 1) \in UpperChars
               /\ Ch(parts[2], Len(parts[2])) \in {".", "!", "?", "\""}
            THEN Return(parts[2])
            ELSE IF before = <<>> THEN Raise      \* parts[0].split()[-1]: IndexError
            ELSE IF /\ first_word \in {"says", "states", "reports", "announces",
                                       "confirms", "reveals"}
                    /\ Len(company_part) > 0
                    /\ Len(combined) <= max_length
                 THEN Return(combined)
                 ELSE Return(parts[2])
       ELSE IF Len(parts[1]) > 25 /\ CountCh(parts[1], " ") >= 3
            THEN Return(parts[1])
            ELSE Pass

\* 7b: the title has a dash; " ~ " and " ^ " are the en and em dash separators
dash_separators == <<" - ", " ~ ", " ^ ">>
DashPart(title, k) ==
  LET parts == SplitOnce(title, dash_separators[k])
  IN IF ~Contains(title, dash_separators[k]) THEN Pass
     ELSE IF Len(parts[1]) >= 30 /\ CountCh(parts[1], " ") >= 3 THEN Return(parts[1])
     ELSE IF Len(parts[2]) >= 30 /\ CountCh(parts[2], " ") >= 3 THEN Return(parts[2])
     ELSE Pass
\* the first separator, in order, one side of which is substantial
DashRule(title) ==
  LET found == {k \in 1 .. Len(dash_separators) : DashPart(title, k).kind = "return"}
  IN IF found = {} THEN Pass ELSE DashPart(title, Min(found))

\* 7c: the patterns of the natural break points
break_patterns ==
  <<<<Behind(TerminalPunct), Lit(" ")>>, <<Lit(", ")>>, <<Lit("; ")>>, <<Lit(" but ")>>,
    <<Lit(" and ")>>, <<Lit(" as ")>>, <<Lit(" due to ")>>>>
\* 7c, first half: the right-most break point that keeps more than 65% of
\* max_length and gives a candidate of at least 70% of max_length that is
\* no prefix of the original title
BreakRule(title, original_title, max_length) ==
  LET shortened == Prefix(title, max_length - 1)
      break_points == UNION {ReFindEnds(break_patterns[k], shortened, 1) :
                               k \in 1 .. Len(break_patterns)}
      Candidate(point) ==
        LET c == Strip(Prefix(title, point))
        IN IF EndsWithPunct(c) THEN c ELSE c \o "."
      good == {point \in break_points :
                 /\ point * 100 > max_length * 65
                 /\ Len(Candidate(point)) * 10 >= max_length * 7
                 /\ Candidate(point) # Prefix(original_title, Len(Candidate(point)))}
  IN IF good = {} THEN Pass ELSE Return(Candidate(Max(good)))

\* 7c, second half: the last complete word, when 80% of max_length is kept
LastSpaceRule(title, max_length) ==
  LET last_space == RFind(Prefix(title, max_length - 1), " ")
      shortened == Prefix(title, last_space)
  IN IF last_space * 10 > max_length * 8
     THEN Return(IF EndsWithPunct(shortened) THEN shortened ELSE shortened \o ".")
     ELSE Pass

\* the original is kept when it is at most 25% longer than max_length
KeepsOriginal(original_title, max_length) == Len(original_title) * 100 <= max_length * 125

\* the absolute fallback: title[:max_length-3], cut at its last space
HardTruncate(title, max_length) ==
  LET shortened == Prefix(title, max_length - 3)
      last_space == RFind(shortened, " ")
  IN IF last_space > 0 THEN Prefix(shortened, last_space) \o "..." ELSE shortened \o "..."

(***************************************************************************)
(* clean_article_text                                                      *)
(***************************************************************************)
\* w1\s+w2\s+...\s+wn, the words in lower case (the patterns are applied
\* with re.IGNORECASE, that is, to the lower-cased text)
Phrase(words) == <<Words(words)>>
\* \s+.*?\.  and  .*?\.
ToPeriodSpaced == <<Plus(SpaceChars), AnyLazyStar, Lit(".")>>
ToPeriod == <<AnyLazyStar, Lit(".")>>

boilerplate_patterns ==
  << <<Alt(<<"for more information", "to learn more", "for further details",
             "read more", "find out more", "click here for more">>),
       AnyLazyPlus, Alt(<<"website", "site", "page", "url">>)>> \o ToPeriod,
     <<Lit("visit"), Plus(SpaceChars), AnyLazyPlus, Plus(SpaceChars)>>
       \o Phrase(<<"for", "more">>) \o ToPeriodSpaced,
     Phrase(<<"click", "here", "to">>) \o ToPeriodSpaced,
     Phrase(<<"learn", "more", "at">>) \o ToPeriodSpaced,
     Phrase(<<"find", "out", "more">>) \o ToPeriodSpaced,
     Phrase(<<"learn", "more">>) \o ToPeriodSpaced,
     Phrase(<<"see", "more">>) \o ToPeriodSpaced,
     Phrase(<<"read", "the", "full">>) \o ToPeriodSpaced,
     Phrase(<<"follow", "this", "link">>) \o ToPeriodSpaced,
     Phrase(<<"subscribe", "to", "our", "newsletter">>) \o ToPeriod,
     Phrase(<<"sign", "up", "for", "our">>) \o ToPeriodSpaced,
     Phrase(<<"get", "updates">>) \o ToPeriodSpaced,
     <<Lit("@"), Star(SpaceChars), Rep(DigitChars, FALSE, 4, 4, FALSE)>>
       \o ToPeriod \o <<Star(SpaceChars)>>,
     <<Lit("copyright"), Star(SpaceChars), Lit("@")>> \o ToPeriod \o <<Star(SpaceChars)>>,
     Phrase(<<"follow", "us", "on">>) \o ToPeriodSpaced,
     Phrase(<<"like", "us", "on">>) \o ToPeriodSpaced,
     Phrase(<<"share", "this">>) \o ToPeriodSpaced,
     Phrase(<<"the", "content", "is", "provided", "for", "information",
              "purposes", "only">>) \o ToPeriod,
     Phrase(<<"all", "rights", "reserved">>) \o ToPeriod,
     Phrase(<<"this", "article", "was", "originally", "published">>) \o ToPeriodSpaced >>

\* line 373, one pattern: re.sub(pattern, '', text, flags=re.IGNORECASE)
RemoveBoilerplate(text, pattern) == ReSubFrom(pattern, "", text, Lower(text), 1)
\* line 376
TidySpace(text) == Strip(CollapseSpace(text))

(***************************************************************************)
(* An argument that may be None: <<>> is None, <<s>> is the string s.      *)
(***************************************************************************)
None == <<>>
Some(s) == <<s>>

(***************************************************************************)
(* The tokenizers.  sent_tokenize and word_tokenize are NLTK's: on plain   *)
(* prose (no abbreviations, no contractions) Punkt ends a sentence after   *)
(* '.', '!' or '?' followed by whitespace, and word_tokenize of a text     *)
(* without punctuation gives its whitespace-separated words.  Both raise   *)
(* LookupError when the punkt resource is not installed.                   *)
(***************************************************************************)
\* the sentence breaks of sent_tokenize
PunktBreaks(text) ==
  {r \in SpaceRuns(text) : /\ r[1] > 1 /\ Ch(text, r[1] - 1) \in TerminalPunct
                           /\ r[2] < Len(text)}
\* sent_tokenize(text), when punkt is installed
SentTokenize(text) ==
  SelectSeq(Listed([k \in 1 .. Cardinality(PunktBreaks(text)) + 1 |->
                      Strip(PiecesAround(text, PunktBreaks(text))[k])]),
            LAMBDA piece : piece # "")
\* word_tokenize(text), when punkt is installed
WordTokenize(text) == SplitWords(text)

\* lines 93-95: re.split(r'(?<=[.!?])\s+(?=[A-Z])', text), the pieces stripped
\* and those of more than 10 characters kept
SimpleBreaks(text) ==
  {r \in SpaceRuns(text) : /\ r[1] > 1 /\ Ch(text, r[1] - 1) \in TerminalPunct
                           /\ r[2] < Len(text) /\ Ch(text, r[2] + 1) \in UpperChars}
simple_sentence_tokenize(text) ==
  LET pieces == PiecesAround(text, SimpleBreaks(text))
  IN SelectSeq(Listed([k \in 1 .. Len(pieces) |-> Strip(pieces[k])]),
               LAMBDA piece : Len(piece) > 10)

(***************************************************************************)
(* extract_keywords                                                        *)
(***************************************************************************)
\* stopwords.words('english') of NLTK, as far as a token can equal one: the
\* entries of more than two letters without an apostrophe
NltkStopWords ==
  {"myself", "our", "ours", "ourselves", "you", "your", "yours", "yourself",
   "yourselves", "him", "his", "himself", "she", "her", "hers", "herself",
   "its", "itself", "they", "them", "their", "theirs", "themselves", "what",
   "which", "who", "whom", "this", "that", "these", "those", "are", "was",
   "were", "been", "being", "have", "has", "had", "having", "does", "did",
   "doing", "the", "and", "but", "because", "until", "while", "for", "with",
   "about", "against", "between", "into", "through", "during", "before",
   "after", "above", "below", "from", "down", "out", "off", "over", "under",
   "again", "further", "then", "once", "here", "there", "when", "where", "why",
   "how", "all", "any", "both", "each", "few", "more", "most", "other", "some",
   "such", "nor", "not", "only", "own", "same", "than", "too", "very", "can",
   "will", "just", "don", "should", "now", "ain", "aren", "couldn", "didn",
   "doesn", "hadn", "hasn", "haven", "isn", "mightn", "mustn", "needn", "shan",
   "shouldn", "wasn", "weren", "won", "wouldn"}
\* lines 66-69
BasicStopWords ==
  {"a", "an", "the", "and", "or", "but", "if", "because", "as", "what", "when",
   "where", "how", "who", "which", "this", "that", "to", "in", "is", "are",
   "was", "were", "be", "been", "being", "have", "has", "had", "do", "does",
   "did", "of", "for", "with"}
\* line 52: re.sub(r'[^\w\s]', '', text.lower())
WordsAndSpaces(text) ==
  ConcatRange([p \in 1 .. Len(text) |->
                 IF Ch(text, p) \in WordChars \cup SpaceChars THEN LowerCh(Ch(text, p)) ELSE ""],
              1, Len(text))
\* the first n distinct words, whatever their counts
FirstDistinct(words, n) ==
  LET firsts == SelectSeq(Listed([k \in 1 .. Len(words) |-> k]),
                          LAMBDA k : \A h \in 1 .. k - 1 : words[h] # words[k])
  IN Listed([r \in 1 .. Min({n, Len(firsts)}) |-> words[firsts[r]]])
\* FreqDist(words).most_common(n): by count, the first seen first among equals
MostCommon(words, n) ==
  LET seen == {<<words[k], Cardinality({i \in 1 .. Len(words) : words[i] = words[k]}), k>> :
                 k \in {i \in 1 .. Len(words) : \A h \in 1 .. i - 1 : words[h] # words[i]}}
      Before(a, b) == a[2] > b[2] \/ (a[2] = b[2] /\ a[3] < b[3])
  IN Listed([r \in 1 .. Min({n, Cardinality(seen)}) |->
               (CHOOSE a \in seen : Cardinality({b \in seen : Before(b, a)}) = r - 1)[1]])
num_keywords == 8
\* lines 50-77; env.stopwords says whether NLTK's stopword list is installed
extract_keywords(text, env) ==
  LET words == WordTokenize(WordsAndSpaces(text))
      stop_words == IF env.stopwords THEN NltkStopWords ELSE BasicStopWords
      filtered_words == SelectSeq(words, LAMBDA word : word \notin stop_words /\ Len(word) > 2)
  IN MostCommon(filtered_words, num_keywords)

(***************************************************************************)
(* extract_important_sentences.  Sentence indices are the source's: the    *)
(* sentence with index i is sentences[i + 1].                              *)
(***************************************************************************)
\* lines 113-117
FirstTokenize(text, env) ==
  IF env.punkt THEN SentTokenize(text) ELSE simple_sentence_tokenize(text)
\* lines 122-129: the sentences of the paragraphs, re.split(r'\n\s*\n', text)
ParagraphSentences(text, env) ==
  LET paragraphs == ReSplit(<<Lit("\n"), Star(SpaceChars), Lit("\n")>>, text)
  IN CatRange([k \in 1 .. Len(paragraphs) |-> FirstTokenize(paragraphs[k], env)],
              1, Len(paragraphs))
\* lines 134-138: text.split('.'), the substantial pieces with a period put back
PeriodSentences(text) ==
  LET raw_sentences == PiecesAround(text, {<<p, p>> : p \in {q \in 1 .. Len(text) : Ch(text, q) = "."}})
      kept == SelectSeq(raw_sentences, LAMBDA piece : Len(Strip(piece)) > 10)
  IN Listed([k \in 1 .. Len(kept) |-> Strip(kept[k]) \o "."])
\* lines 113-138
Sentences(text, env) ==
  LET first == FirstTokenize(text, env)
      second == IF Len(first) < 3 /\ Len(text) > 200 THEN ParagraphSentences(text, env)
                ELSE first
  IN IF second = <<>> /\ text # "" THEN PeriodSentences(text) ELSE second

\* line 142 (and 575, 582, 657): set(re.findall(r'\b\w+\b', s.lower()))
LowerWords(str) == WordSet(Lower(str))
\* len(words.intersection(title_words)) / len(title_words) compared with a
\* threshold given in tenths
OverlapAbove(words, title_words, tenths) ==
  Cardinality(words \cap title_words) * 10 > tenths * Cardinality(title_words)
OverlapBelow(words, title_words, tenths) ==
  Cardinality(words \cap title_words) * 10 < tenths * Cardinality(title_words)

\* The additions to sentence_scores[i] that each rule makes, in order; a rule
\* that does not apply makes none, and a sentence no rule adds to has no
\* entry in sentence_scores.
\* lines 153-161 without the middle band of lines 158-159
TitleDeltasTwoBands(sentence, title_words) ==
  LET sentence_words == LowerWords(sentence)
  IN IF title_words = {} THEN <<>>
     ELSE IF OverlapAbove(sentence_words, title_words, 7) THEN <<-5>>
     ELSE IF OverlapBelow(sentence_words, title_words, 2) THEN <<2>>
     ELSE <<>>
\* lines 153-161
TitleDeltas(sentence, title_words) ==
  LET sentence_words == LowerWords(sentence)
  IN IF title_words = {} THEN <<>>
     ELSE IF OverlapAbove(sentence_words, title_words, 7) THEN <<-5>>
     ELSE IF OverlapAbove(sentence_words, title_words, 5) THEN <<-3>>
     ELSE IF OverlapBelow(sentence_words, title_words, 2) THEN <<2>>
     ELSE <<>>
\* lines 164-167
KeywordDeltas(sentence, keywords) ==
  LET clean_sentence == Lower(sentence)
  IN SelectSeq(Listed([j \in 1 .. Len(keywords) |->
                         IF Contains(clean_sentence, keywords[j])
                         THEN Len(keywords) - (j - 1) ELSE 0]),
               LAMBDA keyword_weight : keyword_weight # 0)
\* lines 170-177
PositionDeltas(i, count) ==
  IF i = 0 THEN <<5>>
  ELSE IF i = 1 THEN <<3>>
  ELSE IF i < count \div 3 THEN <<2>>
  ELSE IF i > (count * 2) \div 3 THEN <<1>>
  ELSE <<>>
\* lines 180-186
LengthDeltas(sentence) ==
  LET words_count == WordCount(sentence)
  IN IF 10 <= words_count /\ words_count <= 25 THEN <<2>>
     ELSE IF words_count < 5 THEN <<-2>>
     ELSE IF words_count > 40 THEN <<-1>>
     ELSE <<>>
\* line 189: r'\d+%|[$...]\d+|\d+\.\d+'; of the currency signs only '$' is ASCII
DataRes ==
  { <<Plus(DigitChars), Lit("%")>>, <<One({"$"}), Plus(DigitChars)>>,
    <<Plus(DigitChars), Lit("."), Plus(DigitChars)>> }
DataDeltas(sentence) ==
  IF \E re \in DataRes : ReSearch(re, sentence)[1] # 0 THEN <<2>> ELSE <<>>
Deltas(sentences, i, keywords, title_words) ==
  TitleDeltas(sentences[i + 1], title_words) \o KeywordDeltas(sentences[i + 1], keywords)
    \o PositionDeltas(i, Len(sentences)) \o LengthDeltas(sentences[i + 1])
    \o DataDeltas(sentences[i + 1])
\* lines 145-190: sentence_scores as the set of its <<index, score>> items
SentenceScores(sentences, keywords, title_words) ==
  LET all == {<<i, Deltas(sentences, i, keywords, title_words)>> : i \in 0 .. Len(sentences) - 1}
  IN {<<item[1], Sum(item[2])>> : item \in {x \in all : x[2] # <<>>}}
ScoreOf(sentence_scores, i) == (CHOOSE item \in sentence_scores : item[1] = i)[2]

\* lines 193-197: sorted is stable and the keys come in index order, so equal
\* scores stay in index order
TopIndices(sentence_scores, max_sentences) ==
  LET Before(a, b) == a[2] > b[2] \/ (a[2] = b[2] /\ a[1] < b[1])
  IN Listed([r \in 1 .. Min({max_sentences, Cardinality(sentence_scores)}) |->
               (CHOOSE a \in sentence_scores :
                  Cardinality({b \in sentence_scores : Before(b, a)}) = r - 1)[1]])
\* lines 201-206: the opening sentence is to be put in
ForcesFirst(top, sentences, title_words) ==
  /\ 0 \notin Range(top) /\ Len(sentences) > 0 /\ WordCount(sentences[1]) >= 5
  /\ title_words # {}
  /\ OverlapBelow(LowerWords(sentences[1]), title_words, 6)
\* line 209: min(top, key=score), the first of the lowest-scoring in list order
MinScoreAt(top, sentence_scores) ==
  CHOOSE k \in 1 .. Len(top) :
    /\ \A h \in 1 .. Len(top) : ScoreOf(sentence_scores, top[k]) <= ScoreOf(sentence_scores, top[h])
    /\ \A h \in 1 .. k - 1 : ScoreOf(sentence_scores, top[h]) > ScoreOf(sentence_scores, top[k])
\* lines 207-211 without the eviction of lines 208-210
WithFirstKeepingAll(top, sentence_scores, max_sentences) == top \o <<0>>
\* lines 207-211
WithFirst(top, sentence_scores, max_sentences) ==
  (IF Len(top) >= max_sentences
   THEN SubSeq(top, 1, MinScoreAt(top, sentence_scores) - 1)
          \o SubSeq(top, MinScoreAt(top, sentence_scores) + 1, Len(top))
   ELSE top) \o <<0>>
\* lines 214-224
SelectedSentences(sentences, top) ==
  LET order == Sorted(top)
  IN Listed([k \in 1 .. Len(order) |->
               IF EndsWithPunct(Strip(sentences[order[k] + 1])) THEN sentences[order[k] + 1]
               ELSE Strip(sentences[order[k] + 1]) \o "."])
\* lines 228-234
FailureSentences(text) ==
  LET first_period == Find(text, ".")
  IN IF text = "" THEN <<"No important sentences found.">>
     ELSE IF 10 < first_period /\ first_period < 300 THEN <<Prefix(text, first_period + 1)>>
     ELSE <<Strip(Prefix(text, 200)) \o "...">>
(***************************************************************************)
(* format_summary, summarize_with_transformers and the steps of            *)
(* summarize_text                                                          *)
(***************************************************************************)
\* format_summary without lines 248-249
format_summary_unguarded(sentence_list) ==
  LET summary == ReSub(<<Lit("..")>>, ".", UpperFirst(TidySpace(Join(sentence_list, " "))))
  IN IF summary # "" /\ ~EndsWithPunct(summary) THEN summary \o "." ELSE summary
\* lines 248-268
format_summary(sentence_list) ==
  IF sentence_list = <<>> THEN "No summary available."
  ELSE LET summary == ReSub(<<Lit("..")>>, ".", UpperFirst(TidySpace(Join(sentence_list, " "))))
       IN IF summary # "" /\ ~EndsWithPunct(summary) THEN summary \o "." ELSE summary

\* lines 301-314: what summarize_with_transformers makes of the model's text
TransformerSummary(summary_text) ==
  LET summary == UpperFirst(Strip(summary_text))
  IN IF EndsWithPunct(summary) THEN summary ELSE summary \o "."

\* bool(title_text): neither None nor ''
Truthy(title_text) == title_text # None /\ title_text # Some("")
\* line 575
TitleWords(title_text) == IF Truthy(title_text) THEN LowerWords(title_text[1]) ELSE {}
\* lines 580-589 without the overlap test of lines 584-587
AcceptsModelUnchecked(transformer_summary, title_text) == TRUE
\* lines 582-589: the model's summary is returned
AcceptsModel(transformer_summary, title_text) ==
  \/ TitleWords(title_text) = {}
  \/ OverlapBelow(LowerWords(transformer_summary), TitleWords(title_text), 7)

\* line 568
NoContent == "No article content available to summarize."
MinTextLength == 20
\* line 568 without the length test
LacksContentEmptyOnly(text_arg) ==
  IF text_arg = None THEN TRUE ELSE text_arg[1] = ""
\* line 568
LacksContent(text_arg) ==
  IF text_arg = None THEN TRUE ELSE Len(text_arg[1]) < MinTextLength

\* lines 603-610: the first chosen sentence repeats the title
RepeatsTitle(important_sentences, title_text) ==
  /\ important_sentences # <<>> /\ Truthy(title_text)
  /\ LET first_sentence == Lower(important_sentences[1])
         title_lower == Lower(title_text[1])
     IN \/ first_sentence = title_lower
        \/ /\ Len(first_sentence) > 0 /\ Len(title_lower) > 0
           /\ Contains(title_lower, first_sentence) \/ Contains(first_sentence, title_lower)
\* lines 618-621: the first of more_sentences that differs from the title and
\* does not contain it, if there is one
OtherThanTitle(important_sentences, more_sentences, title_text) ==
  LET title_lower == Lower(title_text[1])
      other == {k \in 1 .. Len(more_sentences) :
                  /\ Lower(more_sentences[k]) # title_lower
                  /\ ~Contains(Lower(more_sentences[k]), title_lower)}
  IN IF other = {} THEN important_sentences ELSE <<more_sentences[Min(other)]>>

\* line 630 without the test of the text's length
TooShortAnyText(summary, text) == Len(summary) < 100
\* line 630
TooShort(summary, text) == Len(summary) < 100 /\ Len(text) > 500

\* lines 636-653
WithoutEllipsis(summary, text) ==
  LET last_period == RFind(Prefix(summary, -3), ".")
      cut == RFind(summary, ". ") + 2
      partial_last_sentence == Slice(summary, cut, -3)
      sentence_start == Find(text, partial_last_sentence)
      sentence_end == FindFrom(text, ".", sentence_start + Len(partial_last_sentence))
  IN IF ~EndsWith(summary, "...") THEN summary
     ELSE IF last_period * 10 > Len(summary) * 7 THEN Prefix(summary, last_period + 1)
     ELSE IF partial_last_sentence # "" /\ sentence_start >= 0 /\ sentence_end > 0
          THEN Prefix(summary, cut) \o Slice(text, sentence_start, sentence_end + 1)
     ELSE summary

\* lines 656-662: the summary repeats the title's words
GuardApplies(summary, text, title_text) ==
  /\ summary # "" /\ Truthy(title_text) /\ TitleWords(title_text) # {}
  /\ OverlapAbove(LowerWords(summary), TitleWords(title_text), 7)
  /\ Len(text) > 200
\* line 666
AltText(all_sentences) == Join(SubSeq(all_sentences, 3, Len(all_sentences)), " ")

\* lines 681-685
FirstSentences(simple) ==
  IF Len(simple) >= 3 THEN simple[1] \o " " \o simple[2] \o " " \o simple[3]
  ELSE Join(SubSeq(simple, 1, Min({2, Len(simple)})), " ")
\* lines 690-692
FirstParagraph(text) == ReSplit(<<Lit("\n"), Star(SpaceChars), Lit("\n")>>, text)[1]
\* line 694
Truncated(text) == Strip(Prefix(text, 250)) \o " [Truncated due to processing error]"


(***************************************************************************)
(* The state.  Each function that has a loop, a call or more than one      *)
(* return statement runs as a process: a program counter, the arguments,   *)
(* the locals, and the returned value once the counter is "done".          *)
(***************************************************************************)
VARIABLES
  \* enhance_title
  et_pc,           \* the step enhance_title is at; "idle" when it is not running
  original_title,  \* the argument, as kept at line 398
  max_length,      \* the argument
  title,           \* the local that the steps rewrite
  et_k,            \* the index of the running loop (phrase or company)
  et_ret,          \* the returned value, once et_pc = "done"
  et_path,         \* the return statement that produced et_ret
  \* clean_article_text
  ca_pc,           \* the step clean_article_text is at; "idle" when it is not running
  ca_arg,          \* the argument of the running (or last) call
  ca_text,         \* the local text the patterns rewrite
  ca_k,            \* the index of the next pattern
  ca_ret,          \* the returned value, once ca_pc = "done"
  ca_calls,        \* how often the function has been applied on top of its own result
  ca_once,         \* the value the first application returned
  \* the module's surroundings
  env,                     \* the NLTK resources that are installed
  TRANSFORMERS_AVAILABLE,  \* line 32-37: whether the transformers import succeeded
  \* extract_important_sentences
  eis_pc,                \* the step the function is at; "idle" when it is not running
  eis_text,              \* the argument text
  eis_keywords,          \* the argument keywords
  max_sentences,         \* the argument max_sentences
  eis_title_text,        \* the argument title_text: None or a string
  sentences,             \* the tokenized text
  sentence_scores,       \* the items <<index, score>> of the score table
  top_sentence_indices,  \* the chosen indices
  selected_sentences,    \* the returned list, once eis_pc = "done"
  \* summarize_text
  st_pc,                \* the step summarize_text is at; "idle" when it is not running
  text_arg,             \* the argument text: None or a string
  title_text,           \* the argument title_text: None or a string
  text,                 \* the local text from line 572 on (the sanitized text)
  keywords,             \* line 597
  important_sentences,  \* lines 600-621
  summary,              \* lines 624-653
  st_calls,             \* the functions summarize_text has called so far
  st_ret,               \* the returned value, once st_pc = "done"
  st_path,              \* the return statement that produced st_ret
  \* format_articles (news_service.py)
  fa_pc,              \* the step format_articles is at; "idle" when it is not running
  news_data,          \* the argument: the articles of the response, or NoData
  fa_i,               \* the place of the running article in news_data["data"]
  symbols,            \* lines 181-186
  company_name,       \* lines 182-189: None or a string
  description,        \* line 192: None or a string
  fa_original_title,  \* line 195: None or a string
  enhanced_title,     \* lines 196-200: None or a string
  smart_summary,      \* lines 204-226
  articles,           \* the records appended so far; the returned list once fa_pc = "done"
  \* the process that serves requests: the import of summarize_service and
  \* the threads that call summarize_text
  module_pc,   \* "unloaded", "importing" (line 29 is running) or "loaded"
  downloads,   \* how often ensure_nltk_resources has been entered
  in_ensure,   \* the threads that are inside ensure_nltk_resources
  w_pc,        \* per thread: the step of its summarize_text call
  w_text,      \* per thread: the text of its call, None or a string
  w_calls,     \* per thread: the calls it has made
  \* the usage tracker (api_manager.py) and the threads that fetch news
  usage_data,  \* api_tracker.usage_data
  usage_file,  \* the content of api_usage.json
  today,       \* the date of the clock, as a day number
  sent,        \* per day: the requests that went out to the API
  f_pc,        \* per thread: the step of its fetch_marketaux_news call
  f_calls,     \* per thread: the calls it has made
  f_symbols,   \* per thread: the argument symbols of its call
  f_ret,       \* per thread: what its last call returned
  wire,        \* the symbols of the requests that went out, in their order
  \* update_news and save_news_to_json (news_service.py)
  un_pc,               \* the step update_news is at; "idle" when it is not running
  article_count,       \* the argument of update_news
  max_requests,        \* line 324, the argument of fetch_news_by_tickers
  available_requests,  \* line 108
  remaining_then,      \* what get_remaining_requests returned at line 108
  un_k,                \* the place of the running ticker in the loop of line 114
  all_articles,        \* lines 102-122
  un_ret,              \* what update_news returned, once un_pc = "done"
  un_failed,           \* how many requests of this update have failed
  sn_pc,               \* the step save_news_to_json is at; "idle" when it is not running
  sn_arg,              \* the argument of save_news_to_json
  sn_ret,              \* what save_news_to_json returned, once sn_pc = "done"
  current_file,        \* CURRENT_NEWS_FILE: <<>> or <<the articles it holds>>
  archive              \* the files of ARCHIVE_DIR, oldest first

etVars == <<et_pc, original_title, max_length, title, et_k, et_ret, et_path>>
caVars == <<ca_pc, ca_arg, ca_text, ca_k, ca_ret, ca_calls, ca_once>>
eisVars == <<eis_pc, eis_text, eis_keywords, max_sentences, eis_title_text, sentences,
             sentence_scores, top_sentence_indices, selected_sentences>>
stVars == <<st_pc, text_arg, title_text, text, keywords, important_sentences, summary,
            st_calls, st_ret, st_path>>
faVars == <<fa_pc, news_data, fa_i, symbols, company_name, description, fa_original_title,
            enhanced_title, smart_summary, articles>>
serverVars == <<module_pc, downloads, in_ensure, w_pc, w_text, w_calls>>
trackerVars == <<usage_data, usage_file, today, sent, f_pc, f_calls, f_symbols, f_ret, wire>>
updateVars == <<un_pc, article_count, max_requests, available_requests, remaining_then, un_k,
                all_articles, un_ret, un_failed>>
saveVars == <<sn_pc, sn_arg, sn_ret, current_file, archive>>
\* what no function of summarize_service touches
hostVars == <<faVars, serverVars, trackerVars, updateVars, saveVars>>
vars == <<etVars, caVars, env, TRANSFORMERS_AVAILABLE, eisVars, stVars, hostVars>>

Envs == [punkt : BOOLEAN, stopwords : BOOLEAN]
NothingInstalled == [punkt |-> FALSE, stopwords |-> FALSE]

(***************************************************************************)
(* enhance_title as a process: one action per step of the function, the    *)
(* two loops one iteration at a time.                                      *)
(***************************************************************************)
ET_Idle ==
  /\ et_pc = "idle" /\ original_title = "" /\ max_length = 0 /\ title = ""
  /\ et_k = 0 /\ et_ret = "" /\ et_path = "none"

\* the call enhance_title(t, m)
ET_Call(t, m) ==
  /\ et_pc = "start" /\ original_title = t /\ max_length = m /\ title = t
  /\ et_k = 0 /\ et_ret = "" /\ et_path = "none"

\* the same call made by a step of another function, as a condition on the
\* state after that step
ET_Called(t, m) ==
  /\ et_pc' = "start" /\ original_title' = t /\ max_length' = m /\ title' = t
  /\ et_k' = 0 /\ et_ret' = "" /\ et_path' = "none"

\* what no step of enhance_title touches
ET_Others == <<caVars, env, TRANSFORMERS_AVAILABLE, eisVars, stVars, hostVars>>

ET_Goto(pc, t) ==
  /\ et_pc' = pc /\ title' = t
  /\ UNCHANGED <<original_title, max_length, et_k, et_ret, et_path, ET_Others>>

ET_ReturnVia(path, value) ==
  /\ et_pc' = "done" /\ et_ret' = value /\ et_path' = path
  /\ UNCHANGED <<original_title, max_length, title, et_k, ET_Others>>

\* lines 394-395
ET_Empty == et_pc = "start" /\ title = "" /\ ET_ReturnVia("empty", title)
\* line 401
ET_StripTickers == et_pc = "start" /\ title # "" /\ ET_Goto("prefix", StripTickers(title))
\* lines 411-414
ET_StripPrefix == et_pc = "prefix" /\ ET_Goto("ellipsis", StripPrefix(title))
\* lines 417-418
ET_StripEllipsis == et_pc = "ellipsis" /\ ET_Goto("whitespace", StripEllipsis(title))
\* line 421
ET_StripWhitespace ==
  /\ et_pc = "whitespace"
  /\ et_pc' = "fillers" /\ title' = StripWhitespace(title) /\ et_k' = 1
  /\ UNCHANGED <<original_title, max_length, et_ret, et_path, ET_Others>>
\* lines 432-435, one phrase
ET_RemoveFiller ==
  /\ et_pc = "fillers"
  /\ title' = RemoveFiller(title, filler_phrases[et_k])
  /\ IF et_k < Len(filler_phrases)
     THEN et_k' = et_k + 1 /\ et_pc' = "fillers"
     ELSE et_k' = 0 /\ et_pc' = "capitalize"
  /\ UNCHANGED <<original_title, max_length, et_ret, et_path, ET_Others>>
\* lines 438-439
ET_Capitalize ==
  /\ et_pc = "capitalize"
  /\ et_pc' = "companies" /\ title' = UpperFirst(title) /\ et_k' = 1
  /\ UNCHANGED <<original_title, max_length, et_ret, et_path, ET_Others>>
\* lines 446-467, one company
ET_StripCompany ==
  /\ et_pc = "companies"
  /\ title' = StripCompany(title, common_companies[et_k])
  /\ IF et_k < Len(common_companies)
     THEN et_k' = et_k + 1 /\ et_pc' = "companies"
     ELSE et_k' = 0 /\ et_pc' = "length"
  /\ UNCHANGED <<original_title, max_length, et_ret, et_path, ET_Others>>
\* lines 470-471
ET_Concise ==
  et_pc = "length" /\ Len(title) <= max_length /\ ET_ReturnVia("concise", title)
ET_TooLong == et_pc = "length" /\ Len(title) > max_length /\ ET_Goto("colon", title)
\* lines 476-495
ET_ColonReturn ==
  /\ et_pc = "colon" /\ ColonRule(title, max_length).kind = "return"
  /\ ET_ReturnVia("colon", ColonRule(title, max_length).value)
ET_ColonRaise ==
  et_pc = "colon" /\ ColonRule(title, max_length).kind = "raise" /\ ET_Goto("fallback", title)
ET_ColonPass ==
  et_pc = "colon" /\ ColonRule(title, max_length).kind = "pass" /\ ET_Goto("dash", title)
\* lines 498-505
ET_DashReturn ==
  /\ et_pc = "dash" /\ DashRule(title).kind = "return"
  /\ ET_ReturnVia("dash", DashRule(title).value)
ET_DashPass == et_pc = "dash" /\ DashRule(title).kind = "pass" /\ ET_Goto("break", title)
\* lines 508-529
ET_BreakReturn ==
  /\ et_pc = "break" /\ BreakRule(title, original_title, max_length).kind = "return"
  /\ ET_ReturnVia("break", BreakRule(title, original_title, max_length).value)
ET_BreakPass ==
  /\ et_pc = "break" /\ BreakRule(title, original_title, max_length).kind = "pass"
  /\ ET_Goto("space", title)
\* lines 532-538
ET_LastSpaceReturn ==
  /\ et_pc = "space" /\ LastSpaceRule(title, max_length).kind = "return"
  /\ ET_ReturnVia("space", LastSpaceRule(title, max_length).value)
ET_LastSpacePass ==
  et_pc = "space" /\ LastSpaceRule(title, max_length).kind = "pass" /\ ET_Goto("fallback", title)
\* lines 544-545
ET_KeepOriginal ==
  /\ et_pc = "fallback" /\ KeepsOriginal(original_title, max_length)
  /\ ET_ReturnVia("original", original_title)
\* lines 548-552
ET_HardTruncate ==
  /\ et_pc = "fallback" /\ ~KeepsOriginal(original_title, max_length)
  /\ ET_ReturnVia("truncate", HardTruncate(title, max_length))

(***************************************************************************)
(* clean_article_text as a process: the catalogue one pattern at a time.   *)
(***************************************************************************)
CA_Idle ==
  /\ ca_pc = "idle" /\ ca_arg = "" /\ ca_text = "" /\ ca_k = 0 /\ ca_ret = ""
  /\ ca_calls = 0 /\ ca_once = ""

\* the call clean_article_text(x)
CA_Call(x) ==
  /\ ca_pc = "start" /\ ca_arg = x /\ ca_text = x /\ ca_k = 0 /\ ca_ret = ""
  /\ ca_calls = 1 /\ ca_once = ""
\* the same call made by a step of another function, as a condition on the
\* state after that step
CA_Called(x) ==
  /\ ca_pc' = "start" /\ ca_arg' = x /\ ca_text' = x /\ ca_k' = 0 /\ ca_ret' = ""
  /\ ca_calls' = 1 /\ ca_once' = ""

\* what no step of clean_article_text touches
CA_Others == <<etVars, env, TRANSFORMERS_AVAILABLE, eisVars, stVars, hostVars>>

\* lines 333-334
CA_Empty ==
  /\ ca_pc = "start" /\ ca_text = ""
  /\ ca_pc' = "done" /\ ca_ret' = ""
  /\ UNCHANGED <<ca_arg, ca_text, ca_k, ca_calls, ca_once, CA_Others>>
CA_Begin ==
  /\ ca_pc = "start" /\ ca_text # ""
  /\ ca_pc' = "patterns" /\ ca_k' = 1
  /\ UNCHANGED <<ca_arg, ca_text, ca_ret, ca_calls, ca_once, CA_Others>>
\* lines 372-373, one pattern
CA_RemoveBoilerplate ==
  /\ ca_pc = "patterns"
  /\ ca_text' = RemoveBoilerplate(ca_text, boilerplate_patterns[ca_k])
  /\ IF ca_k < Len(boilerplate_patterns)
     THEN ca_k' = ca_k + 1 /\ ca_pc' = "patterns"
     ELSE ca_k' = 0 /\ ca_pc' = "tidy"
  /\ UNCHANGED <<ca_arg, ca_ret, ca_calls, ca_once, CA_Others>>
\* lines 376-378
CA_TidySpace ==
  /\ ca_pc = "tidy"
  /\ ca_pc' = "done" /\ ca_text' = TidySpace(ca_text) /\ ca_ret' = TidySpace(ca_text)
  /\ UNCHANGED <<ca_arg, ca_k, ca_calls, ca_once, CA_Others>>
\* the function applied to its own result: clean_article_text(clean_article_text(x))
CA_Again ==
  /\ ca_pc = "done" /\ ca_calls = 1
  /\ ca_pc' = "start" /\ ca_arg' = ca_ret /\ ca_text' = ca_ret /\ ca_k' = 0
  /\ ca_ret' = "" /\ ca_calls' = 2 /\ ca_once' = ca_ret
  /\ UNCHANGED CA_Others

(***************************************************************************)
(* extract_important_sentences as a process.  env tells which NLTK         *)
(* resources are installed: [punkt |-> BOOLEAN, stopwords |-> BOOLEAN].    *)
(***************************************************************************)
EIS_Idle ==
  /\ eis_pc = "idle" /\ eis_text = "" /\ eis_keywords = <<>> /\ max_sentences = 0
  /\ eis_title_text = None /\ sentences = <<>> /\ sentence_scores = {}
  /\ top_sentence_indices = <<>> /\ selected_sentences = <<>>

\* the call extract_important_sentences(t, k, m, ttl)
EIS_Call(t, k, m, ttl) ==
  /\ eis_pc = "start" /\ eis_text = t /\ eis_keywords = k /\ max_sentences = m
  /\ eis_title_text = ttl /\ sentences = <<>> /\ sentence_scores = {}
  /\ top_sentence_indices = <<>> /\ selected_sentences = <<>>
\* the same call made by a step of another function, as a condition on the
\* state after that step
EIS_Called(t, k, m, ttl) ==
  /\ eis_pc' = "start" /\ eis_text' = t /\ eis_keywords' = k /\ max_sentences' = m
  /\ eis_title_text' = ttl /\ sentences' = <<>> /\ sentence_scores' = {}
  /\ top_sentence_indices' = <<>> /\ selected_sentences' = <<>>

\* what no step of extract_important_sentences touches
EIS_Others == <<etVars, caVars, env, TRANSFORMERS_AVAILABLE, stVars, hostVars>>

\* lines 113-138
EIS_Tokenize ==
  /\ eis_pc = "start"
  /\ eis_pc' = "score" /\ sentences' = Sentences(eis_text, env)
  /\ UNCHANGED <<eis_text, eis_keywords, max_sentences, eis_title_text,
                 sentence_scores, top_sentence_indices, selected_sentences, EIS_Others>>
\* line 141 raises on a title that is None: lines 225-234
EIS_Failure ==
  /\ eis_pc = "score" /\ eis_title_text = None
  /\ eis_pc' = "done" /\ selected_sentences' = FailureSentences(eis_text)
  /\ UNCHANGED <<eis_text, eis_keywords, max_sentences, eis_title_text, sentences,
                 sentence_scores, top_sentence_indices, EIS_Others>>
\* lines 141-190
EIS_Score ==
  /\ eis_pc = "score" /\ eis_title_text # None
  /\ eis_pc' = "top"
  /\ sentence_scores' = SentenceScores(sentences, eis_keywords, LowerWords(eis_title_text[1]))
  /\ UNCHANGED <<eis_text, eis_keywords, max_sentences, eis_title_text, sentences,
                 top_sentence_indices, selected_sentences, EIS_Others>>
\* lines 193-197
EIS_Top ==
  /\ eis_pc = "top"
  /\ eis_pc' = "first"
  /\ top_sentence_indices' = TopIndices(sentence_scores, max_sentences)
  /\ UNCHANGED <<eis_text, eis_keywords, max_sentences, eis_title_text, sentences,
                 sentence_scores, selected_sentences, EIS_Others>>
\* lines 201-211
EIS_ForceFirst ==
  /\ eis_pc = "first"
  /\ ForcesFirst(top_sentence_indices, sentences, LowerWords(eis_title_text[1]))
  /\ eis_pc' = "return"
  /\ top_sentence_indices' = WithFirst(top_sentence_indices, sentence_scores, max_sentences)
  /\ UNCHANGED <<eis_text, eis_keywords, max_sentences, eis_title_text, sentences,
                 sentence_scores, selected_sentences, EIS_Others>>
EIS_KeepTop ==
  /\ eis_pc = "first"
  /\ ~ForcesFirst(top_sentence_indices, sentences, LowerWords(eis_title_text[1]))
  /\ eis_pc' = "return"
  /\ UNCHANGED <<eis_text, eis_keywords, max_sentences, eis_title_text, sentences,
                 sentence_scores, top_sentence_indices, selected_sentences, EIS_Others>>
\* lines 214-224
EIS_Return ==
  /\ eis_pc = "return"
  /\ eis_pc' = "done"
  /\ top_sentence_indices' = Sorted(top_sentence_indices)
  /\ selected_sentences' = SelectedSentences(sentences, top_sentence_indices)
  /\ UNCHANGED <<eis_text, eis_keywords, max_sentences, eis_title_text, sentences,
                 sentence_scores, EIS_Others>>

(***************************************************************************)
(* summarize_text as a process.  Its calls of clean_article_text and of    *)
(* extract_important_sentences start those processes and wait for them.    *)
(* company_name is passed on to summarize_with_transformers, which does    *)
(* not use it; it is left out.                                             *)
(***************************************************************************)
ST_Idle ==
  /\ st_pc = "idle" /\ text_arg = None /\ title_text = None /\ text = ""
  /\ keywords = <<>> /\ important_sentences = <<>> /\ summary = ""
  /\ st_calls = {} /\ st_ret = "" /\ st_path = "none"

\* the call summarize_text(x, title_text=t)
ST_Call(x, t) ==
  /\ st_pc = "start" /\ text_arg = x /\ title_text = t /\ text = ""
  /\ keywords = <<>> /\ important_sentences = <<>> /\ summary = ""
  /\ st_calls = {} /\ st_ret = "" /\ st_path = "none"

\* the same call made by a step of another function, as a condition on the
\* state after that step
ST_Called(x, t) ==
  /\ st_pc' = "start" /\ text_arg' = x /\ title_text' = t /\ text' = ""
  /\ keywords' = <<>> /\ important_sentences' = <<>> /\ summary' = ""
  /\ st_calls' = {} /\ st_ret' = "" /\ st_path' = "none"

\* the texts a summarization model gives back (result[0]['summary_text'])
ModelOutputs ==
  { "", "acme shares surge after earnings",
    "  the chipmaker beat estimates and raised its guidance for the year  ",
    "Acme shares surge!" }

ST_ReturnVia(path, value) ==
  /\ st_pc' = "done" /\ st_ret' = value /\ st_path' = path

\* lines 568-569
ST_NoContent ==
  /\ st_pc = "start" /\ LacksContent(text_arg)
  /\ ST_ReturnVia("sentinel", NoContent)
  /\ UNCHANGED <<text_arg, title_text, text, keywords, important_sentences, summary, st_calls>>
  /\ UNCHANGED <<hostVars, etVars, caVars, env, TRANSFORMERS_AVAILABLE, eisVars>>
\* line 572, the call
ST_Clean ==
  /\ st_pc = "start" /\ ~LacksContent(text_arg)
  /\ st_pc' = "cleaning" /\ CA_Called(text_arg[1])
  /\ st_calls' = st_calls \cup {"clean_article_text"}
  /\ UNCHANGED <<text_arg, title_text, text, keywords, important_sentences, summary,
                 st_ret, st_path>>
  /\ UNCHANGED <<hostVars, etVars, env, TRANSFORMERS_AVAILABLE, eisVars>>
\* line 572, the assignment
ST_Cleaned ==
  /\ st_pc = "cleaning" /\ ca_pc = "done"
  /\ st_pc' = "model" /\ text' = ca_ret
  /\ UNCHANGED <<text_arg, title_text, keywords, important_sentences, summary, st_calls,
                 st_ret, st_path>>
  /\ UNCHANGED <<hostVars, etVars, caVars, env, TRANSFORMERS_AVAILABLE, eisVars>>
\* line 578, the else
ST_NoModel ==
  /\ st_pc = "model" /\ ~TRANSFORMERS_AVAILABLE
  /\ st_pc' = "ensure"
  /\ UNCHANGED <<text_arg, title_text, text, keywords, important_sentences, summary,
                 st_calls, st_ret, st_path>>
  /\ UNCHANGED <<hostVars, etVars, caVars, env, TRANSFORMERS_AVAILABLE, eisVars>>
\* lines 579-580: summarize_with_transformers returns None (lines 315-318)
ST_ModelFails ==
  /\ st_pc = "model" /\ TRANSFORMERS_AVAILABLE
  /\ st_pc' = "ensure"
  /\ st_calls' = st_calls \cup {"summarize_with_transformers"}
  /\ UNCHANGED <<text_arg, title_text, text, keywords, important_sentences, summary,
                 st_ret, st_path>>
  /\ UNCHANGED <<hostVars, etVars, caVars, env, TRANSFORMERS_AVAILABLE, eisVars>>
\* lines 579-589: the model's summary is returned
ST_ModelAccepted ==
  /\ st_pc = "model" /\ TRANSFORMERS_AVAILABLE
  /\ \E summary_text \in ModelOutputs :
       /\ AcceptsModel(TransformerSummary(summary_text), title_text)
       /\ ST_ReturnVia("model", TransformerSummary(summary_text))
  /\ st_calls' = st_calls \cup {"summarize_with_transformers"}
  /\ UNCHANGED <<text_arg, title_text, text, keywords, important_sentences, summary>>
  /\ UNCHANGED <<hostVars, etVars, caVars, env, TRANSFORMERS_AVAILABLE, eisVars>>
\* lines 579-586: the model's summary repeats the title
ST_ModelRejected ==
  /\ st_pc = "model" /\ TRANSFORMERS_AVAILABLE
  /\ \E summary_text \in ModelOutputs :
       ~AcceptsModel(TransformerSummary(summary_text), title_text)
  /\ st_pc' = "ensure"
  /\ st_calls' = st_calls \cup {"summarize_with_transformers"}
  /\ UNCHANGED <<text_arg, title_text, text, keywords, important_sentences, summary,
                 st_ret, st_path>>
  /\ UNCHANGED <<hostVars, etVars, caVars, env, TRANSFORMERS_AVAILABLE, eisVars>>
\* line 594: ensure_nltk_resources (lines 16-26) leaves some of the resources
\* installed
ST_Ensure ==
  /\ st_pc = "ensure"
  /\ st_pc' = "keywords" /\ env' \in Envs
  /\ st_calls' = st_calls \cup {"ensure_nltk_resources"}
  /\ UNCHANGED <<text_arg, title_text, text, keywords, important_sentences, summary,
                 st_ret, st_path>>
  /\ UNCHANGED <<hostVars, etVars, caVars, TRANSFORMERS_AVAILABLE, eisVars>>
\* line 594: nltk.download('punkt') at line 21 is not guarded and raises
ST_EnsureRaises ==
  /\ st_pc = "ensure"
  /\ st_pc' = "fallback"
  /\ st_calls' = st_calls \cup {"ensure_nltk_resources"}
  /\ UNCHANGED <<text_arg, title_text, text, keywords, important_sentences, summary,
                 st_ret, st_path>>
  /\ UNCHANGED <<hostVars, etVars, caVars, env, TRANSFORMERS_AVAILABLE, eisVars>>
\* lines 597-600, up to the call
ST_Keywords ==
  /\ st_pc = "keywords"
  /\ st_pc' = "selecting" /\ keywords' = extract_keywords(text, env)
  /\ EIS_Called(text, keywords', 4, title_text)
  /\ st_calls' = st_calls \cup {"extract_keywords", "extract_important_sentences"}
  /\ UNCHANGED <<text_arg, title_text, text, important_sentences, summary, st_ret, st_path>>
  /\ UNCHANGED <<hostVars, etVars, caVars, env, TRANSFORMERS_AVAILABLE>>
\* lines 600-610: the first sentence does not repeat the title
ST_KeepFirst ==
  /\ st_pc = "selecting" /\ eis_pc = "done"
  /\ ~RepeatsTitle(selected_sentences, title_text)
  /\ st_pc' = "format" /\ important_sentences' = selected_sentences
  /\ UNCHANGED <<text_arg, title_text, text, keywords, summary, st_calls, st_ret, st_path>>
  /\ UNCHANGED <<hostVars, etVars, caVars, env, TRANSFORMERS_AVAILABLE, eisVars>>
\* lines 612-613
ST_DropFirst ==
  /\ st_pc = "selecting" /\ eis_pc = "done"
  /\ RepeatsTitle(selected_sentences, title_text) /\ Len(selected_sentences) > 1
  /\ st_pc' = "format" /\ important_sentences' = Tail(selected_sentences)
  /\ UNCHANGED <<text_arg, title_text, text, keywords, summary, st_calls, st_ret, st_path>>
  /\ UNCHANGED <<hostVars, etVars, caVars, env, TRANSFORMERS_AVAILABLE, eisVars>>
\* lines 615-617, up to the call
ST_SelectMore ==
  /\ st_pc = "selecting" /\ eis_pc = "done"
  /\ RepeatsTitle(selected_sentences, title_text) /\ Len(selected_sentences) = 1
  /\ st_pc' = "more" /\ important_sentences' = selected_sentences
  /\ EIS_Called(text, keywords, 5, title_text)
  /\ UNCHANGED <<text_arg, title_text, text, keywords, summary, st_calls, st_ret, st_path>>
  /\ UNCHANGED <<hostVars, etVars, caVars, env, TRANSFORMERS_AVAILABLE>>
\* lines 617-621
ST_PickOther ==
  /\ st_pc = "more" /\ eis_pc = "done"
  /\ st_pc' = "format"
  /\ important_sentences' = OtherThanTitle(important_sentences, selected_sentences, title_text)
  /\ UNCHANGED <<text_arg, title_text, text, keywords, summary, st_calls, st_ret, st_path>>
  /\ UNCHANGED <<hostVars, etVars, caVars, env, TRANSFORMERS_AVAILABLE, eisVars>>
\* lines 624-627
ST_Format ==
  /\ st_pc = "format"
  /\ st_pc' = "expand" /\ summary' = TidySpace(format_summary(important_sentences))
  /\ UNCHANGED <<text_arg, title_text, text, keywords, important_sentences, st_calls,
                 st_ret, st_path>>
  /\ UNCHANGED <<hostVars, etVars, caVars, env, TRANSFORMERS_AVAILABLE, eisVars>>
\* lines 630-632, up to the call
ST_Expand ==
  /\ st_pc = "expand" /\ TooShort(summary, text)
  /\ st_pc' = "expanding" /\ EIS_Called(text, keywords, 6, title_text)
  /\ UNCHANGED <<text_arg, title_text, text, keywords, important_sentences, summary,
                 st_calls, st_ret, st_path>>
  /\ UNCHANGED <<hostVars, etVars, caVars, env, TRANSFORMERS_AVAILABLE>>
ST_NoExpand ==
  /\ st_pc = "expand" /\ ~TooShort(summary, text)
  /\ st_pc' = "ellipsis"
  /\ UNCHANGED <<text_arg, title_text, text, keywords, important_sentences, summary,
                 st_calls, st_ret, st_path>>
  /\ UNCHANGED <<hostVars, etVars, caVars, env, TRANSFORMERS_AVAILABLE, eisVars>>
\* lines 632-633
ST_Expanded ==
  /\ st_pc = "expanding" /\ eis_pc = "done"
  /\ st_pc' = "ellipsis" /\ summary' = format_summary(selected_sentences)
  /\ UNCHANGED <<text_arg, title_text, text, keywords, important_sentences, st_calls,
                 st_ret, st_path>>
  /\ UNCHANGED <<hostVars, etVars, caVars, env, TRANSFORMERS_AVAILABLE, eisVars>>
\* line 636, the else
ST_NoEllipsis ==
  /\ st_pc = "ellipsis" /\ ~EndsWith(summary, "...")
  /\ st_pc' = "guard"
  /\ UNCHANGED <<text_arg, title_text, text, keywords, important_sentences, summary,
                 st_calls, st_ret, st_path>>
  /\ UNCHANGED <<hostVars, etVars, caVars, env, TRANSFORMERS_AVAILABLE, eisVars>>
\* lines 636-653
ST_Ellipsis ==
  /\ st_pc = "ellipsis" /\ EndsWith(summary, "...")
  /\ st_pc' = "guard" /\ summary' = WithoutEllipsis(summary, text)
  /\ UNCHANGED <<text_arg, title_text, text, keywords, important_sentences, st_calls,
                 st_ret, st_path>>
  /\ UNCHANGED <<hostVars, etVars, caVars, env, TRANSFORMERS_AVAILABLE, eisVars>>
\* lines 656-662 and 675: the summary does not repeat the title's words
ST_NoGuard ==
  /\ st_pc = "guard" /\ ~GuardApplies(summary, text, title_text)
  /\ ST_ReturnVia("summary", summary)
  /\ UNCHANGED <<text_arg, title_text, text, keywords, important_sentences, summary, st_calls>>
  /\ UNCHANGED <<hostVars, etVars, caVars, env, TRANSFORMERS_AVAILABLE, eisVars>>
\* line 664: sent_tokenize raises LookupError without punkt, and line 676
\* catches it
ST_GuardRaises ==
  /\ st_pc = "guard" /\ GuardApplies(summary, text, title_text) /\ ~env.punkt
  /\ st_pc' = "fallback"
  /\ st_calls' = st_calls \cup {"sent_tokenize"}
  /\ UNCHANGED <<text_arg, title_text, text, keywords, important_sentences, summary,
                 st_ret, st_path>>
  /\ UNCHANGED <<hostVars, etVars, caVars, env, TRANSFORMERS_AVAILABLE, eisVars>>
\* lines 664-665 and 675: five sentences or fewer
ST_GuardFew ==
  /\ st_pc = "guard" /\ GuardApplies(summary, text, title_text) /\ env.punkt
  /\ Len(SentTokenize(text)) <= 5
  /\ ST_ReturnVia("summary", summary)
  /\ st_calls' = st_calls \cup {"sent_tokenize"}
  /\ UNCHANGED <<text_arg, title_text, text, keywords, important_sentences, summary>>
  /\ UNCHANGED <<hostVars, etVars, caVars, env, TRANSFORMERS_AVAILABLE, eisVars>>
\* lines 664-668, up to the call
ST_GuardAlt ==
  /\ st_pc = "guard" /\ GuardApplies(summary, text, title_text) /\ env.punkt
  /\ Len(SentTokenize(text)) > 5
  /\ st_pc' = "alt"
  /\ EIS_Called(AltText(SentTokenize(text)),
                extract_keywords(AltText(SentTokenize(text)), env), 4, Some(""))
  /\ st_calls' = st_calls \cup {"sent_tokenize"}
  /\ UNCHANGED <<text_arg, title_text, text, keywords, important_sentences, summary,
                 st_ret, st_path>>
  /\ UNCHANGED <<hostVars, etVars, caVars, env, TRANSFORMERS_AVAILABLE>>
\* lines 668-673
ST_AltReturn ==
  /\ st_pc = "alt" /\ eis_pc = "done"
  /\ Len(format_summary(selected_sentences)) > 100
  /\ ST_ReturnVia("alt", format_summary(selected_sentences))
  /\ UNCHANGED <<text_arg, title_text, text, keywords, important_sentences, summary, st_calls>>
  /\ UNCHANGED <<hostVars, etVars, caVars, env, TRANSFORMERS_AVAILABLE, eisVars>>
\* lines 672 and 675
ST_AltTooShort ==
  /\ st_pc = "alt" /\ eis_pc = "done"
  /\ Len(format_summary(selected_sentences)) <= 100
  /\ ST_ReturnVia("summary", summary)
  /\ UNCHANGED <<text_arg, title_text, text, keywords, important_sentences, summary, st_calls>>
  /\ UNCHANGED <<hostVars, etVars, caVars, env, TRANSFORMERS_AVAILABLE, eisVars>>
\* lines 680-685
ST_FallbackSentences ==
  /\ st_pc = "fallback" /\ simple_sentence_tokenize(text) # <<>>
  /\ ST_ReturnVia("fallback_sentences", FirstSentences(simple_sentence_tokenize(text)))
  /\ UNCHANGED <<text_arg, title_text, text, keywords, important_sentences, summary, st_calls>>
  /\ UNCHANGED <<hostVars, etVars, caVars, env, TRANSFORMERS_AVAILABLE, eisVars>>
\* lines 690-692
ST_FallbackParagraph ==
  /\ st_pc = "fallback" /\ simple_sentence_tokenize(text) = <<>>
  /\ Len(FirstParagraph(text)) > 30
  /\ ST_ReturnVia("fallback_paragraph", FirstParagraph(text))
  /\ UNCHANGED <<text_arg, title_text, text, keywords, important_sentences, summary, st_calls>>
  /\ UNCHANGED <<hostVars, etVars, caVars, env, TRANSFORMERS_AVAILABLE, eisVars>>
\* line 694
ST_FallbackTruncate ==
  /\ st_pc = "fallback" /\ simple_sentence_tokenize(text) = <<>>
  /\ Len(FirstParagraph(text)) <= 30
  /\ ST_ReturnVia("fallback_truncate", Truncated(text))
  /\ UNCHANGED <<text_arg, title_text, text, keywords, important_sentences, summary, st_calls>>
  /\ UNCHANGED <<hostVars, etVars, caVars, env, TRANSFORMERS_AVAILABLE, eisVars>>

(***************************************************************************)
(* The titles and target lengths enhance_title is applied to.             *)
(***************************************************************************)
TitleHeads == {"", "BREAKING: ", "Report: "}
TitleTails == {"", " (NASDAQ:AAPL)", "...", ", sources say", " - report"}
TitleBodies ==
  { "",
    "apple unveils new chip",
    "Apple stock rises as investors cheer Apple",
    "Tesla recall widens, Tesla shares",
    "Fed chief says: Rates will stay higher for longer than markets expect this year.",
    "Nvidia chief reveals: new chips ship to every large cloud customer before summer",
    ": nobody saw the quarterly numbers coming this early in the season at all today",
    "Oil prices climb for a third straight week - Traders weigh supply cuts and demand",
    "Shares of chipmakers slide on export curbs, and investors brace for a weaker quarter",
    "Regional banks extend their rally while bond yields retreat from multi-year highs",
    "Supercalifragilisticexpialidocious-Supercalifragilisticexpialidocious-Supercalifragi",
    "Antidisestablishmentarianism outlook worsens Pneumonoultramicroscopicsilicovolcanoconiosis",
    "abcdefgh" }
\* titles taken as a whole: only a ticker annotation, the two-ticker scenario,
\* a ticker annotation nested in another, a separator between dashes
TitlesAsGiven ==
  { "(NASDAQ:AAPL)",
    "Apple Inc. (NASDAQ:AAPL) Reports Record Earnings (NASDAQ:AAPL)",
    "Chip stocks rally (NYSE(NYSE:A):B)",
    "Markets ~ Stocks end the week higher after a strong jobs report lifts sentiment again" }
Titles == {h \o b \o t : h \in TitleHeads, b \in TitleBodies, t \in TitleTails}
            \cup TitlesAsGiven
\* the default target length, a tighter one, and the smallest ones
DefaultMaxLength == 75
TightMaxLength == 40
MaxTinyLength == 3
MaxLengths == {DefaultMaxLength, TightMaxLength} \cup 0 .. MaxTinyLength

(***************************************************************************)
(* The texts clean_article_text is applied to: two pieces side by side.    *)
(***************************************************************************)
CleanPieces ==
  { "",
    "Shares rose 5% on Monday.",
    "Visit example.com for more details.",
    "See See more a. more b.",
    "Click Learn more at x. here to win.",
    "@ 2024 Acme Corp. All rights reserved.",
    "COPYRIGHT @ Acme Corp.\n\n",
    "Subscribe to our newsletter today.",
    "For more information see our Website now.",
    "  Follow  us\ton Twitter.",
    "The content is provided for information purposes only, not as advice.",
    "This article was originally published on Example. Read the full story here." }
CleanTexts == {a \o b : a \in CleanPieces, b \in CleanPieces}
                \cup {a \o " " \o b : a \in CleanPieces, b \in CleanPieces}

(***************************************************************************)
(* The articles and titles the summarizer is applied to.  An article is a  *)
(* lead and a body, some with a close, each a run of sentences, joined by  *)
(* spaces.                                                                 *)
(***************************************************************************)
ArticleTitle == "Acme shares surge after earnings"
\* the title as a sentence, and two sentences with every word of the title
TitleSentence == "Acme shares surge after earnings."
TitleWordsSentence == "After earnings, shares of Acme surge 12% in early trading on Monday."
TitleWordsAgain == "The surge in Acme shares after earnings surprised many short sellers."
\* sentences that share no word with the title
Analysts == "Analysts at two large banks raised their price targets for the stock."
Revenue == "Revenue grew 8% from a year earlier, helped by strong demand in Europe."
Buyback == "The company also announced a new buyback program worth $500 million."
Outlook == "Chief executive Dana Lee said the outlook for next year remains solid."
Rivals == "Rivals have struggled with higher costs and weaker consumer spending."
Volume == "Trading volume was roughly three times the daily average."
\* a last sentence that names the title's company and has no full stop
OpenEnded == "Acme will publish more details on the earnings at its investor day next month"
\* a market wrap in short sentences
Ticks ==
  <<"Oil rose 2% on Monday.", "Gold fell 1% on Tuesday.", "Copper was flat all week.",
    "Wheat hit a new low.", "Corn held steady again.", "Bonds rallied into the close.",
    "The dollar eased a bit.", "The yen gained ground.", "Bitcoin slipped below support.",
    "Tech stocks led the gains.", "Banks lagged the market.", "Energy names were mixed.",
    "Utilities drew some buyers.", "Retailers lost ground.", "Airlines climbed on fuel.",
    "Miners tracked metals lower.", "Builders rose on rates.", "Insurers ended little changed.",
    "Volatility stayed low.", "Futures pointed higher.">>
Leads ==
  {<<>>, <<TitleSentence>>, <<TitleWordsSentence>>, <<Analysts>>, <<Analysts, Revenue>>}
Bodies ==
  {<<Buyback>>, <<TitleWordsSentence, TitleWordsAgain, Buyback, Outlook, Rivals>>,
   <<Buyback, Outlook, Rivals, Volume>>, Ticks}
Closes ==
  {<<"More details are expected at the investor day next month">>,
   <<"Visit acme.com for more details.">>, <<"The rest of the story follows.....">>}
\* texts taken as a whole: empty, under 20 characters, only whitespace, only
\* short fragments (in 29 and in 39 characters), the title as the only
\* sentence, two paragraphs
ArticlesAsGiven ==
  { "", "Shares rose 5%.", "                        ",
    "Up. Down. Up. Down. Up. Down.", "Up. Down. Up. Down. Up. Down. Up. Down.",
    "Acme shares surge after earnings.",
    "Acme shares surge after earnings\n\nAnalysts cheered the numbers. Trading was heavy" }
\* six sentences: two with every word of the title, and four that make 100
\* characters when joined by spaces
HundredWrap ==
  Join(<<TitleWordsSentence, TitleWordsAgain, "Oil rose 2% on Monday.", "Gold fell 1% on Tuesday.",
         "Copper was flat all week.", "Corn held steady all week.">>, " ")
Articles ==
  {Join(lead \o body, " ") : lead \in Leads, body \in Bodies}
    \cup {Join(<<Analysts>> \o body \o close, " ") :
            body \in {<<Buyback>>, <<Buyback, Outlook, Rivals, Volume>>}, close \in Closes}
    \cup {Join(<<TitleWordsSentence, TitleWordsAgain, OpenEnded>>, " ")}
    \cup ArticlesAsGiven
    \cup {HundredWrap}
ArticleTitles == {None, Some(""), Some(ArticleTitle)}


(***************************************************************************)
(* The calls of extract_important_sentences that are studied on their own. *)
(***************************************************************************)
\* sentences with three, one and (letter case aside) seven words of the titles
PartOverlap == "Acme shares fell after the open on Tuesday."
OneWord == "Earnings season starts next week for the large banks."
SevenWords == "Analysts raise their targets after Acme shares jump."
\* a title of ten words
LongTitle == "Acme shares surge after earnings as analysts raise their targets"
SelectTitles == ArticleTitles \cup {Some(LongTitle)}
SelectTexts ==
  { "", "Up. Down. Up. Down. Up. Down.",
    Join(<<Analysts, Outlook, Volume>>, " "),
    Join(<<Analysts, PartOverlap, OneWord, SevenWords, TitleWordsSentence, OpenEnded>>, " "),
    Join(<<Analysts, Revenue>>, " "),
    Join(<<Analysts, Revenue, Buyback, Outlook, Rivals, Volume>>, " "),
    Join(<<TitleSentence, Buyback, Outlook, Rivals, Volume>>, " "),
    Join(<<Analysts, Revenue, TitleWordsSentence, TitleWordsAgain, Buyback, Outlook, Rivals>>, " "),
    Join(<<TitleSentence>> \o Ticks, " "),
    "Acme shares surge after earnings\n\nAnalysts cheered the numbers. Trading was heavy" }
\* no keywords, the keywords extract_keywords falls back to (line 80), and
\* keywords of the texts
SelectKeywords ==
  { <<>>, <<"news", "market", "company", "stock", "business">>,
    <<"acme", "shares", "surge", "earnings">>, <<"revenue", "buyback", "outlook">> }
MaxSentencesBound == 4

(***************************************************************************)
(* The responses format_articles is applied to.                            *)
(***************************************************************************)
Article(t, d) == [keys |-> {"title", "description"}, title |-> t, description |-> d]
\* an article with an id and entities: one without a symbol, one without a
\* name, one with both
ListedArticle(t, d) ==
  [keys |-> {"title", "description", "uuid", "entities"}, title |-> t, description |-> d,
   uuid |-> Some("a1"),
   entities |-> << [symbol |-> Some(""), name |-> Some("Nobody")],
                   [symbol |-> Some("ACME"), name |-> None],
                   [symbol |-> Some("ACM"), name |-> Some("Acme Corp")] >>]
\* descriptions whose summary repeats the title
Repeating ==
  { "A. B. Acme shares surge after earnings.",
    "Acme shares surge after earnings. It was. A. Acme shares surge after earnings." }
\* a title over the default target length with a conjunction past 65% of it
BreakTitle ==
  "Shares of chipmakers slide on export curbs this week as investors brace for a much weaker quarter"
\* descriptions summarized under the article's title, and under no title
TitledTexts ==
  { TitleSentence,
    Join(<<TitleWordsSentence, Buyback, Outlook, Rivals, Volume>>, " "),
    Join(<<TitleSentence, TitleWordsSentence, TitleWordsAgain, Buyback, Outlook, Rivals>>, " "),
    Join(<<Analysts, Buyback, "The rest of the story follows.....">>, " "),
    Join(<<Analysts, Revenue, TitleWordsSentence, TitleWordsAgain, Buyback, Outlook, Rivals>>, " "),
    Join(<<TitleWordsSentence>> \o Ticks, " "),
    Join(<<TitleSentence>> \o Ticks, " ") }
UntitledTexts ==
  { "", "                        ", "Up. Down. Up. Down. Up. Down. Up. Down.", Join(Ticks, " ") }
FormatArticles ==
  {Article(Some(t), None) : t \in Titles \cup {BreakTitle}}
    \cup {Article(Some(ArticleTitle), Some(a)) : a \in TitledTexts}
    \cup {Article(None, Some(a)) : a \in UntitledTexts}
    \cup {ListedArticle(Some(t), Some(d)) : t \in {ArticleTitle, TitleSentence}, d \in Repeating}
    \cup {[keys |-> {"description"}, description |-> Some("")], [keys |-> {"title"}, title |-> Some("BREAKING: ")]}
\* a response without data, one with no article, those with one article and
\* one with two
FormatResponses ==
  {[keys |-> {"error"}], [keys |-> {"data"}, data |-> <<>>]}
    \cup {[keys |-> {"data"}, data |-> <<a>>] : a \in FormatArticles}
    \cup {[keys |-> {"data"},
           data |-> <<Article(Some("BREAKING: "), None),
                      ListedArticle(Some("Report: apple unveils new chip"), Some("Shares rose 5%."))>>]}


(***************************************************************************)
(* format_articles (news_service.py) as a process.  An article is a        *)
(* dictionary: keys is the set of its keys, and a value is None or a       *)
(* string, the entities a list of dictionaries.  Of the record that is     *)
(* appended, the fields that are copied from the article as they are       *)
(* (image_url, source, published_at, language, url) are left out.          *)
(***************************************************************************)
\* article.get(key, default)
Get(article, key, default) == IF key \in article.keys THEN article[key] ELSE default
\* str(i) for the place of an article in a short list
Str(i) == <<"1", "2", "3">>[i]

\* lines 183-186: the symbols of the entities that have one
EntitiesWithSymbol(article) ==
  IF "entities" \in article.keys
  THEN SelectSeq(article.entities, LAMBDA entity : Truthy(entity.symbol))
  ELSE <<>>
Symbols(article) ==
  Listed([k \in 1 .. Len(EntitiesWithSymbol(article)) |->
            EntitiesWithSymbol(article)[k].symbol[1]])
\* lines 187-189: the name of the first entity with a symbol and a name
CompanyName(article) ==
  LET named == SelectSeq(EntitiesWithSymbol(article), LAMBDA entity : Truthy(entity.name))
  IN IF named = <<>> THEN None ELSE named[1].name

\* lines 207-212: the summary repeats the title
TooSimilar(summary_text, title_value) ==
  /\ summary_text # "" /\ Truthy(title_value)
  /\ \/ Lower(summary_text) = Lower(title_value[1])
     \/ Contains(Lower(title_value[1]), Lower(summary_text))
     \/ Contains(Lower(summary_text), Lower(title_value[1]))
\* line 215: description.split('.')
SplitAtPeriods(str) ==
  PiecesAround(str, {<<p, p>> : p \in {q \in 1 .. Len(str) : Ch(str, q) = "."}})
\* line 218: '. '.join(sentences[2:])
AlternativeText(pieces) == Join(SubSeq(pieces, 3, Len(pieces)), ". ")
\* lines 222-226
GenericSummary(company) ==
  IF Truthy(company)
  THEN "Read more details about this " \o company[1] \o " news story in the full article."
  ELSE "The article provides more details on this topic. Read the full text for comprehensive information."
\* lines 228-240
Record(article, i, title_value, original, text_value, snippet, symbol_list) ==
  [id |-> Get(article, "uuid", Some(Str(i))), title |-> title_value,
   original_title |-> original, description |-> text_value, snippet |-> snippet,
   symbols |-> symbol_list]

FA_Idle ==
  /\ fa_pc = "idle" /\ news_data = [keys |-> {}] /\ fa_i = 0 /\ symbols = <<>>
  /\ company_name = None /\ description = None /\ fa_original_title = None
  /\ enhanced_title = None /\ smart_summary = "" /\ articles = <<>>
\* the call format_articles(d)
FA_Call(d) ==
  /\ fa_pc = "start" /\ news_data = d /\ fa_i = 0 /\ symbols = <<>>
  /\ company_name = None /\ description = None /\ fa_original_title = None
  /\ enhanced_title = None /\ smart_summary = "" /\ articles = <<>>

\* the same call made by a step of another function, as a condition on the
\* state after that step
FA_Called(d) ==
  /\ fa_pc' = "start" /\ news_data' = d /\ fa_i' = 0 /\ symbols' = <<>>
  /\ company_name' = None /\ description' = None /\ fa_original_title' = None
  /\ enhanced_title' = None /\ smart_summary' = "" /\ articles' = <<>>

\* what no step of format_articles touches, apart from the functions it calls
FA_Others ==
  <<caVars, env, TRANSFORMERS_AVAILABLE, eisVars, serverVars, trackerVars, updateVars, saveVars>>
\* the article at the place fa_i
FA_Article == news_data.data[fa_i]

\* lines 172-173
FA_NoData ==
  /\ fa_pc = "start" /\ "data" \notin news_data.keys
  /\ fa_pc' = "done"
  /\ UNCHANGED <<news_data, fa_i, symbols, company_name, description, fa_original_title,
                 enhanced_title, smart_summary, articles, etVars, stVars, FA_Others>>
\* lines 176-179
FA_Begin ==
  /\ fa_pc = "start" /\ "data" \in news_data.keys
  /\ fa_pc' = "article" /\ fa_i' = 1
  /\ UNCHANGED <<news_data, symbols, company_name, description, fa_original_title,
                 enhanced_title, smart_summary, articles, etVars, stVars, FA_Others>>
\* lines 181-196, up to the call of enhance_title
FA_Title ==
  /\ fa_pc = "article" /\ fa_i <= Len(news_data.data)
  /\ Get(FA_Article, "title", Some("No Title")) # None
  /\ fa_pc' = "enhancing"
  /\ symbols' = Symbols(FA_Article) /\ company_name' = CompanyName(FA_Article)
  /\ description' = Get(FA_Article, "description", Some(""))
  /\ fa_original_title' = Get(FA_Article, "title", Some("No Title"))
  /\ ET_Called(fa_original_title'[1], DefaultMaxLength)
  /\ UNCHANGED <<news_data, fa_i, enhanced_title, smart_summary, articles, stVars, FA_Others>>
\* lines 181-204 for a title that is None: enhance_title gives None back at
\* line 395, line 200 puts the original title (None) in its place
FA_TitleNone ==
  /\ fa_pc = "article" /\ fa_i <= Len(news_data.data)
  /\ Get(FA_Article, "title", Some("No Title")) = None
  /\ fa_pc' = "summarizing"
  /\ symbols' = Symbols(FA_Article) /\ company_name' = CompanyName(FA_Article)
  /\ description' = Get(FA_Article, "description", Some(""))
  /\ fa_original_title' = None /\ enhanced_title' = None
  /\ ST_Called(description', None)
  /\ UNCHANGED <<news_data, fa_i, smart_summary, articles, etVars, FA_Others>>
\* lines 199-204: enhance_title has returned a title
FA_KeepEnhanced ==
  /\ fa_pc = "enhancing" /\ et_pc = "done" /\ et_ret # ""
  /\ fa_pc' = "summarizing" /\ enhanced_title' = Some(et_ret)
  /\ ST_Called(description, enhanced_title')
  /\ UNCHANGED <<news_data, fa_i, symbols, company_name, description, fa_original_title,
                 smart_summary, articles, etVars, FA_Others>>
\* format_articles without lines 199-200: the empty title is kept
FA_KeepFalsy ==
  /\ fa_pc = "enhancing" /\ et_pc = "done" /\ et_ret = ""
  /\ fa_pc' = "summarizing" /\ enhanced_title' = Some(et_ret)
  /\ ST_Called(description, enhanced_title')
  /\ UNCHANGED <<news_data, fa_i, symbols, company_name, description, fa_original_title,
                 smart_summary, articles, etVars, FA_Others>>
\* lines 199-204: enhance_title has returned the empty string
FA_UseOriginal ==
  /\ fa_pc = "enhancing" /\ et_pc = "done" /\ et_ret = ""
  /\ fa_pc' = "summarizing" /\ enhanced_title' = fa_original_title
  /\ ST_Called(description, enhanced_title')
  /\ UNCHANGED <<news_data, fa_i, symbols, company_name, description, fa_original_title,
                 smart_summary, articles, etVars, FA_Others>>
\* lines 204-216: the summary does not repeat the title, or the description
\* has too few periods for another attempt
FA_KeepSummary ==
  /\ fa_pc = "summarizing" /\ st_pc = "done"
  /\ IF TooSimilar(st_ret, enhanced_title)
     THEN Len(SplitAtPeriods(description[1])) <= 3 ELSE TRUE
  /\ fa_pc' = "append" /\ smart_summary' = st_ret
  /\ UNCHANGED <<news_data, fa_i, symbols, company_name, description, fa_original_title,
                 enhanced_title, articles, etVars, stVars, FA_Others>>
\* lines 207-219: another summary, of the description from its third piece on
FA_Alternative ==
  /\ fa_pc = "summarizing" /\ st_pc = "done"
  /\ TooSimilar(st_ret, enhanced_title)
  /\ Len(SplitAtPeriods(description[1])) > 3
  /\ fa_pc' = "alternative" /\ smart_summary' = st_ret
  /\ ST_Called(Some(AlternativeText(SplitAtPeriods(description[1]))), enhanced_title)
  /\ UNCHANGED <<news_data, fa_i, symbols, company_name, description, fa_original_title,
                 enhanced_title, articles, etVars, FA_Others>>
\* lines 219-222: the other summary is kept
FA_KeepAlternative ==
  /\ fa_pc = "alternative" /\ st_pc = "done"
  /\ st_ret # "" /\ Lower(st_ret) # Lower(enhanced_title[1])
  /\ fa_pc' = "append" /\ smart_summary' = st_ret
  /\ UNCHANGED <<news_data, fa_i, symbols, company_name, description, fa_original_title,
                 enhanced_title, articles, etVars, stVars, FA_Others>>
\* lines 222-226
FA_Generic ==
  /\ fa_pc = "alternative" /\ st_pc = "done"
  /\ st_ret = "" \/ Lower(st_ret) = Lower(enhanced_title[1])
  /\ fa_pc' = "append" /\ smart_summary' = GenericSummary(company_name)
  /\ UNCHANGED <<news_data, fa_i, symbols, company_name, description, fa_original_title,
                 enhanced_title, articles, etVars, stVars, FA_Others>>
\* lines 228-240, and the next round of the loop
FA_Append ==
  /\ fa_pc = "append"
  /\ fa_pc' = "article" /\ fa_i' = fa_i + 1
  /\ articles' = Append(articles, Record(FA_Article, fa_i, enhanced_title, fa_original_title,
                                         description, smart_summary, symbols))
  /\ UNCHANGED <<news_data, symbols, company_name, description, fa_original_title,
                 enhanced_title, smart_summary, etVars, stVars, FA_Others>>
\* line 242
FA_Return ==
  /\ fa_pc = "article" /\ fa_i > Len(news_data.data)
  /\ fa_pc' = "done"
  /\ UNCHANGED <<news_data, fa_i, symbols, company_name, description, fa_original_title,
                 enhanced_title, smart_summary, articles, etVars, stVars, FA_Others>>

(***************************************************************************)
(* The serving process: the threads that come to summarize_text through   *)
(* format_articles.  format_articles imports summarize_service at its line *)
(* 176, so the first thread to get there runs the module body, line 29     *)
(* included, under the import lock; a failed import leaves the module      *)
(* unloaded.  Of summarize_text the steps are kept that decide whether     *)
(* line 594 is reached.                                                    *)
(***************************************************************************)
NumWorkers == 2
MaxWorkerCalls == 2
Workers == 1 .. NumWorkers
\* no text, a text under 20 characters, an article
WorkerTexts == {None, Some("Shares rose 5%."), Some(Join(<<Analysts, Revenue>>, " "))}

SV_Idle ==
  /\ module_pc = "unloaded" /\ downloads = 0 /\ in_ensure = {}
  /\ w_pc = [w \in Workers |-> "idle"] /\ w_text = [w \in Workers |-> None]
  /\ w_calls = [w \in Workers |-> 0]

\* what no step of a serving thread touches
SV_Others ==
  <<etVars, caVars, TRANSFORMERS_AVAILABLE, eisVars, stVars, faVars, trackerVars, updateVars,
    saveVars>>
SV_Goto(w, pc) == w_pc' = [w_pc EXCEPT ![w] = pc]
\* ensure_nltk_resources is entered (line 14) and left (line 26)
SV_Enter(w) == downloads' = downloads + 1 /\ in_ensure' = in_ensure \cup {w}
SV_Leave(w) == in_ensure' = in_ensure \ {w} /\ UNCHANGED downloads

\* a request brings a thread to format_articles with an article of text x
SV_Call(w, x) ==
  /\ w_pc[w] \in {"idle", "done", "raised"} /\ w_calls[w] < MaxWorkerCalls
  /\ SV_Goto(w, "import") /\ w_text' = [w_text EXCEPT ![w] = x]
  /\ w_calls' = [w_calls EXCEPT ![w] = w_calls[w] + 1]
  /\ UNCHANGED <<module_pc, downloads, in_ensure, env, SV_Others>>
\* news_service.py line 176, the module not loaded: its body runs, up to the
\* call of line 29
SV_ImportBegin(w) ==
  /\ w_pc[w] = "import" /\ module_pc = "unloaded"
  /\ module_pc' = "importing" /\ SV_Goto(w, "importing") /\ SV_Enter(w)
  /\ UNCHANGED <<w_text, w_calls, env, SV_Others>>
\* lines 14-29: the downloads have been tried, the rest of the module body runs
SV_ImportEnd(w) ==
  /\ w_pc[w] = "importing"
  /\ module_pc' = "loaded" /\ SV_Goto(w, "start") /\ SV_Leave(w) /\ env' \in Envs
  /\ UNCHANGED <<w_text, w_calls, SV_Others>>
\* line 21 raises: the import fails and the request with it
SV_ImportRaises(w) ==
  /\ w_pc[w] = "importing"
  /\ module_pc' = "unloaded" /\ SV_Goto(w, "raised") /\ SV_Leave(w)
  /\ UNCHANGED <<w_text, w_calls, env, SV_Others>>
\* news_service.py line 176, the module loaded
SV_Imported(w) ==
  /\ w_pc[w] = "import" /\ module_pc = "loaded"
  /\ SV_Goto(w, "start")
  /\ UNCHANGED <<module_pc, downloads, in_ensure, w_text, w_calls, env, SV_Others>>
\* lines 568-569
SV_NoContent(w) ==
  /\ w_pc[w] = "start" /\ LacksContent(w_text[w])
  /\ SV_Goto(w, "done")
  /\ UNCHANGED <<module_pc, downloads, in_ensure, w_text, w_calls, env, SV_Others>>
\* lines 572-589: the model's summary is returned
SV_Model(w) ==
  /\ w_pc[w] = "start" /\ ~LacksContent(w_text[w]) /\ TRANSFORMERS_AVAILABLE
  /\ SV_Goto(w, "done")
  /\ UNCHANGED <<module_pc, downloads, in_ensure, w_text, w_calls, env, SV_Others>>
\* lines 572-594: no model, no summary from it or a rejected one; line 594
\* enters ensure_nltk_resources
SV_EnsureBegin(w) ==
  /\ w_pc[w] = "start" /\ ~LacksContent(w_text[w])
  /\ SV_Goto(w, "ensuring") /\ SV_Enter(w)
  /\ UNCHANGED <<module_pc, w_text, w_calls, env, SV_Others>>
\* lines 14-26, and the rest of summarize_text
SV_EnsureEnd(w) ==
  /\ w_pc[w] = "ensuring"
  /\ SV_Goto(w, "done") /\ SV_Leave(w) /\ env' \in Envs
  /\ UNCHANGED <<module_pc, w_text, w_calls, SV_Others>>
\* line 21 raises, and the except block of summarize_text returns a fallback
SV_EnsureRaises(w) ==
  /\ w_pc[w] = "ensuring"
  /\ SV_Goto(w, "done") /\ SV_Leave(w)
  /\ UNCHANGED <<module_pc, w_text, w_calls, env, SV_Others>>

(***************************************************************************)
(* APIUsageTracker (api_manager.py) and the threads that run               *)
(* fetch_marketaux_news (news_service.py).  Each method of the tracker     *)
(* holds self.lock from its first statement to its last, so a method is    *)
(* one step.  Dates are day numbers; usage_file is <<>> while there is no  *)
(* file and <<u>> when the file holds u.                                   *)
(***************************************************************************)
DAILY_REQUEST_LIMIT == 100
NumFetchers == 2
MaxFetches == 2
MaxDay == 1
StartBelowLimit == 2
Fetchers == 1 .. NumFetchers
Days == 0 .. MaxDay
\* the counts a usage file holds at the start: none, and those at the limit
\* and just below it
StartCounts == {0} \cup (DAILY_REQUEST_LIMIT - StartBelowLimit) .. DAILY_REQUEST_LIMIT

\* news_service.py line 34, the default of the parameter symbols
BATMMAAN_SYMBOLS == "AVGO,AMZN,TSLA,MSFT,META,AAPL,GOOGL,GOOG,NVDA"

Usage(day, n, total) == [last_reset |-> day, requests_today |-> n, total_requests |-> total]
\* lines 25-45
LoadUsageData(file, day) == IF file = <<>> THEN Usage(day, 0, 0) ELSE file[1]
\* lines 58-68: the counter starts again on a new day
CheckResetDay(u, day) ==
  IF day > u.last_reset THEN [u EXCEPT !.last_reset = day, !.requests_today = 0] ELSE u
\* line 68: the file is written when the counter has started again
FileAfterCheck(file, u, day) == IF day > u.last_reset THEN <<CheckResetDay(u, day)>> ELSE file
\* lines 87-89
CanMakeRequest(u, day) == CheckResetDay(u, day).requests_today < DAILY_REQUEST_LIMIT
\* lines 96-100
RecordRequest(u, day) ==
  [CheckResetDay(u, day) EXCEPT !.requests_today = @ + 1, !.total_requests = @ + 1]

TR_Idle ==
  /\ usage_data = Usage(0, 0, 0) /\ usage_file = <<>> /\ today = 0
  /\ sent = [d \in Days |-> 0]
  /\ f_pc = [f \in Fetchers |-> "idle"] /\ f_calls = [f \in Fetchers |-> 0]
  /\ f_symbols = [f \in Fetchers |-> ""] /\ f_ret = [f \in Fetchers |-> "none"]
  /\ wire = <<>>
\* news_service.py line 31: the tracker is built from the usage file, which
\* holds n requests of the day, all of them sent
TR_Loaded(n) ==
  /\ usage_file \in {<<>>, <<Usage(0, n, n)>>} /\ (usage_file = <<>> => n = 0)
  /\ usage_data = LoadUsageData(usage_file, 0) /\ today = 0
  /\ sent = [d \in Days |-> IF d = 0 THEN n ELSE 0]
  /\ f_pc = [f \in Fetchers |-> "idle"] /\ f_calls = [f \in Fetchers |-> 0]
  /\ f_symbols = [f \in Fetchers |-> ""] /\ f_ret = [f \in Fetchers |-> "none"]
  /\ wire = <<>>
\* the same tracker on a later day, or the same day: nothing was sent since
TR_LoadedBefore(n, day) ==
  /\ usage_file \in {<<>>, <<Usage(0, n, n)>>} /\ (usage_file = <<>> => n = 0)
  /\ usage_data = LoadUsageData(usage_file, 0) /\ today = day
  /\ sent = [d \in Days |-> IF d = 0 THEN n ELSE 0]
  /\ f_pc = [f \in Fetchers |-> "idle"] /\ f_calls = [f \in Fetchers |-> 0]
  /\ f_symbols = [f \in Fetchers |-> ""] /\ f_ret = [f \in Fetchers |-> "none"]
  /\ wire = <<>>

\* what no step of the tracker and its callers touches
TR_Others ==
  <<etVars, caVars, env, TRANSFORMERS_AVAILABLE, eisVars, stVars, faVars, serverVars,
    updateVars, saveVars>>
TR_Goto(f, pc) == f_pc' = [f_pc EXCEPT ![f] = pc]
\* a return statement of fetch_marketaux_news: "limit reached" for line 58,
\* "request failed" for line 81, "answered" for lines 77 and 79
TR_Return(f, result) == TR_Goto(f, "done") /\ f_ret' = [f_ret EXCEPT ![f] = result]
\* _check_reset_day under the lock, as every method begins
TR_Checked ==
  /\ usage_data' = CheckResetDay(usage_data, today)
  /\ usage_file' = FileAfterCheck(usage_file, usage_data, today)

\* a thread calls fetch_marketaux_news
TR_Call(f) ==
  /\ f_pc[f] \in {"idle", "done"} /\ f_calls[f] < MaxFetches
  /\ TR_Goto(f, "stats") /\ f_calls' = [f_calls EXCEPT ![f] = f_calls[f] + 1]
  /\ f_symbols' = [f_symbols EXCEPT ![f] = BATMMAAN_SYMBOLS]
  /\ UNCHANGED <<usage_data, usage_file, today, sent, f_ret, wire, TR_Others>>
\* line 52: get_usage_stats (api_manager.py lines 120-138)
TR_Stats(f) ==
  /\ f_pc[f] = "stats"
  /\ TR_Goto(f, "check") /\ TR_Checked
  /\ UNCHANGED <<today, sent, f_calls, f_symbols, f_ret, wire, TR_Others>>
\* lines 54-58: can_make_request says no
TR_Refused(f) ==
  /\ f_pc[f] = "check" /\ ~CanMakeRequest(usage_data, today)
  /\ TR_Return(f, "limit reached") /\ TR_Checked
  /\ UNCHANGED <<today, sent, f_calls, f_symbols, wire, TR_Others>>
\* line 54: can_make_request says yes
TR_Allowed(f) ==
  /\ f_pc[f] = "check" /\ CanMakeRequest(usage_data, today)
  /\ TR_Goto(f, "connect") /\ TR_Checked
  /\ UNCHANGED <<today, sent, f_calls, f_symbols, f_ret, wire, TR_Others>>
\* lines 61-69: the request goes out
TR_Send(f) ==
  /\ f_pc[f] = "connect"
  /\ TR_Goto(f, "response") /\ sent' = [sent EXCEPT ![today] = sent[today] + 1]
  /\ wire' = Append(wire, f_symbols[f])
  /\ UNCHANGED <<usage_data, usage_file, today, f_calls, f_symbols, f_ret, TR_Others>>
\* lines 61-69 raise before a request is out (no connection): lines 80-81
TR_SendFails(f) ==
  /\ f_pc[f] = "connect"
  /\ TR_Return(f, "request failed")
  /\ UNCHANGED <<usage_data, usage_file, today, sent, f_calls, f_symbols, wire, TR_Others>>
\* lines 70-79: the response is read and record_request is called; the data
\* or a parse error is returned
TR_Record(f) ==
  /\ f_pc[f] = "response"
  /\ TR_Return(f, "answered")
  /\ usage_data' = RecordRequest(usage_data, today) /\ usage_file' = <<usage_data'>>
  /\ UNCHANGED <<today, sent, f_calls, f_symbols, wire, TR_Others>>
\* lines 70-73 raise (the connection breaks): lines 80-81
TR_ReadFails(f) ==
  /\ f_pc[f] = "response"
  /\ TR_Return(f, "request failed")
  /\ UNCHANGED <<usage_data, usage_file, today, sent, f_calls, f_symbols, wire, TR_Others>>
\* the clock passes midnight
TR_Midnight ==
  /\ today < MaxDay
  /\ today' = today + 1
  /\ UNCHANGED <<usage_data, usage_file, sent, f_pc, f_calls, f_symbols, f_ret, wire, TR_Others>>

(***************************************************************************)
(* save_news_to_json and archive_current_news (news_service.py).  A file   *)
(* is the list of articles it holds; of the saved object the metadata      *)
(* (last_updated, version, environment, api_stats) is left out.            *)
(***************************************************************************)
\* a current file written by an earlier update
Cached ==
  << [id |-> Some("old"), title |-> Some("Old news"), original_title |-> Some("Old news"),
      description |-> Some(""), snippet |-> NoContent, symbols |-> <<>>] >>
\* what is left of a file whose writing broke off
Partial == <<>>
StartFiles == {<<>>, <<Cached>>}

SN_Idle ==
  /\ sn_pc = "idle" /\ sn_arg = [keys |-> {}] /\ sn_ret = 0
  /\ current_file = <<>> /\ archive = <<>>
\* save_news_to_json is not running and the current file is as an earlier
\* update left it
SN_Waiting ==
  /\ sn_pc = "idle" /\ sn_arg = [keys |-> {}] /\ sn_ret = 0
  /\ current_file \in StartFiles /\ archive = <<>>
\* the call save_news_to_json(d) with the current file as an earlier update
\* left it
SN_Call(d) ==
  /\ sn_pc = "start" /\ sn_arg = d /\ sn_ret = 0
  /\ current_file \in StartFiles /\ archive = <<>>
\* the same call made by a step of another function, as a condition on the
\* state after that step
SN_Called(d) ==
  /\ sn_pc' = "start" /\ sn_arg' = d /\ sn_ret' = 0
  /\ UNCHANGED <<current_file, archive>>

\* what no step of save_news_to_json touches, apart from the functions it calls
SN_Others ==
  <<etVars, caVars, env, TRANSFORMERS_AVAILABLE, eisVars, stVars, serverVars, updateVars>>
SN_Return(n) == sn_pc' = "done" /\ sn_ret' = n /\ UNCHANGED sn_arg

\* line 255, the call
SN_Format ==
  /\ sn_pc = "start"
  /\ sn_pc' = "formatting" /\ FA_Called(sn_arg)
  /\ UNCHANGED <<sn_arg, sn_ret, current_file, archive, trackerVars, SN_Others>>
\* lines 257-259
SN_NoArticles ==
  /\ sn_pc = "formatting" /\ fa_pc = "done" /\ articles = <<>>
  /\ SN_Return(0)
  /\ UNCHANGED <<current_file, archive, faVars, trackerVars, SN_Others>>
\* lines 262-264 and 143-144: there is no current file
SN_NoFile ==
  /\ sn_pc = "formatting" /\ fa_pc = "done" /\ articles # <<>> /\ current_file = <<>>
  /\ sn_pc' = "write"
  /\ UNCHANGED <<sn_arg, sn_ret, current_file, archive, faVars, trackerVars, SN_Others>>
\* lines 262 and 147-153: the current file is copied to the archive
SN_Archive ==
  /\ sn_pc = "formatting" /\ fa_pc = "done" /\ articles # <<>> /\ current_file # <<>>
  /\ sn_pc' = "write" /\ archive' = Append(archive, current_file[1])
  /\ UNCHANGED <<sn_arg, sn_ret, current_file, faVars, trackerVars, SN_Others>>
\* lines 262-264 and 150-156: the copy raises, archive_current_news returns
\* False and save_news_to_json goes on
SN_ArchiveFails ==
  /\ sn_pc = "formatting" /\ fa_pc = "done" /\ articles # <<>> /\ current_file # <<>>
  /\ sn_pc' = "write"
  /\ UNCHANGED <<sn_arg, sn_ret, current_file, archive, faVars, trackerVars, SN_Others>>
\* lines 267-279: get_usage_stats, and the file is written
SN_Write ==
  /\ sn_pc = "write"
  /\ TR_Checked /\ current_file' = <<articles>>
  /\ SN_Return(Len(articles))
  /\ UNCHANGED <<archive, faVars, today, sent, f_pc, f_calls, f_symbols, f_ret, wire, SN_Others>>
\* lines 267-282: open or json.dump raises; the file is as it was or, once
\* opened for writing, cut short
SN_WriteFails ==
  /\ sn_pc = "write"
  /\ TR_Checked /\ current_file' \in {current_file, <<Partial>>}
  /\ SN_Return(0)
  /\ UNCHANGED <<archive, faVars, today, sent, f_pc, f_calls, f_symbols, f_ret, wire, SN_Others>>

(***************************************************************************)
(* update_news and fetch_news_by_tickers (news_service.py).  The thread    *)
(* that runs update_news is the first of the threads that fetch.           *)
(***************************************************************************)
Updater == Min(Fetchers)
\* at most this many requests of an update fail on the network
MaxFailed == 1
\* lines 94-103
batmmaan_tickers == <<"AVGO", "AMZN", "TSLA", "MSFT", "META", "AAPL", "GOOGL", "NVDA">>
\* an article of the API: an id, a title, no description
ApiArticle(id, t) ==
  [keys |-> {"uuid", "title", "description"}, uuid |-> id, title |-> Some(t),
   description |-> None]
\* what line 77 gives for a response that was read: a body without articles
\* and one with two articles, the second without an id
ApiBodies ==
  { [keys |-> {"data"}, data |-> <<>>],
    [keys |-> {"data"},
     data |-> <<ApiArticle(Some("a1"), "apple unveils new chip"), ApiArticle(None, "Untitled")>>] }
\* the responses save_news_to_json is called with: the error of
\* fetch_marketaux_news, the error of fetch_news_by_tickers, a response with
\* no article, and responses with articles
SaveResponses ==
  {[keys |-> {"error"}], [keys |-> {"error", "data"}, data |-> <<>>]}
    \cup ApiBodies
    \cup {[keys |-> {"data"}, data |-> <<ApiArticle(Some(id), t)>>] :
            id \in {"a1", "a2"}, t \in {"apple unveils new chip", "Tesla recall widens"}}
\* the article counts update_news is called with: none, two requests' worth,
\* and more than eight requests' worth
ArticleCounts == {0, 4, 30}
\* lines 117-122: the articles of a response whose id is new, in their order
RECURSIVE AddNew(_, _)
AddNew(collected, data) ==
  IF data = <<>> THEN collected
  ELSE LET article == Head(data)
           article_id == Get(article, "uuid", Some(""))
           seen_ids == {collected[k].uuid : k \in 1 .. Len(collected)}
       IN AddNew(IF Truthy(article_id) /\ article_id \notin seen_ids
                 THEN Append(collected, article) ELSE collected,
                 Tail(data))
Collected(collected, news) ==
  IF "data" \in news.keys THEN AddNew(collected, news.data) ELSE collected
\* line 114: the length of batmmaan_tickers[:available_requests]
SliceLen(n) == Min({Max({n, 0}), Len(batmmaan_tickers)})
\* line 324 with one request for every article
MaxRequestsPerArticle(count) == Min({count, 8})
\* line 324
MaxRequests(count) == Min({(count + 2) \div 3, 8})
\* api_manager.py lines 109-111
GetRemainingRequests(u, day) == DAILY_REQUEST_LIMIT - CheckResetDay(u, day).requests_today

UN_Idle ==
  /\ un_pc = "idle" /\ article_count = 0 /\ max_requests = 0 /\ available_requests = 0
  /\ remaining_then = 0 /\ un_k = 0 /\ all_articles = <<>> /\ un_ret = 0
  /\ un_failed = 0
\* the call update_news(n)
UN_Call(n) ==
  /\ un_pc = "start" /\ article_count = n /\ max_requests = 0 /\ available_requests = 0
  /\ remaining_then = 0 /\ un_k = 0 /\ all_articles = <<>> /\ un_ret = 0
  /\ un_failed = 0

\* what no step of update_news touches, apart from the functions it calls
UN_Others ==
  <<etVars, caVars, env, TRANSFORMERS_AVAILABLE, eisVars, stVars, faVars, serverVars>>

\* lines 317-327: get_api_usage_stats, the number of requests, the call of
\* fetch_news_by_tickers
UN_Begin ==
  /\ un_pc = "start"
  /\ un_pc' = "remaining" /\ TR_Checked /\ max_requests' = MaxRequests(article_count)
  /\ UNCHANGED <<un_failed, article_count, available_requests, remaining_then, un_k, all_articles, un_ret,
                 today, sent, f_pc, f_calls, f_symbols, f_ret, wire, saveVars, UN_Others>>
\* lines 108-111 and 330: no request is available, the error response is saved
UN_NoneLeft ==
  /\ un_pc = "remaining"
  /\ Min({GetRemainingRequests(usage_data, today), max_requests}) <= 0
  /\ un_pc' = "saving" /\ TR_Checked
  /\ remaining_then' = GetRemainingRequests(usage_data, today)
  /\ available_requests' = Min({remaining_then', max_requests})
  /\ SN_Called([keys |-> {"error", "data"}, data |-> <<>>])
  /\ UNCHANGED <<un_failed, article_count, max_requests, un_k, all_articles, un_ret,
                 today, sent, f_pc, f_calls, f_symbols, f_ret, wire, UN_Others>>
\* lines 108-114: the loop over the first available_requests tickers begins
UN_Loop ==
  /\ un_pc = "remaining"
  /\ Min({GetRemainingRequests(usage_data, today), max_requests}) > 0
  /\ un_pc' = "loop" /\ TR_Checked /\ un_k' = 1
  /\ remaining_then' = GetRemainingRequests(usage_data, today)
  /\ available_requests' = Min({remaining_then', max_requests})
  /\ UNCHANGED <<un_failed, article_count, max_requests, all_articles, un_ret,
                 today, sent, f_pc, f_calls, f_symbols, f_ret, wire, saveVars, UN_Others>>
\* lines 114-116: fetch_marketaux_news is called for the next ticker
UN_Fetch ==
  /\ un_pc = "loop" /\ un_k <= SliceLen(available_requests)
  /\ un_pc' = "fetching"
  /\ TR_Goto(Updater, "stats")
  /\ f_symbols' = [f_symbols EXCEPT ![Updater] = batmmaan_tickers[un_k]]
  /\ UNCHANGED <<un_failed, article_count, max_requests, available_requests, remaining_then, un_k,
                 all_articles, un_ret, usage_data, usage_file, today, sent, f_calls, f_ret,
                 wire, saveVars, UN_Others>>
\* lines 116-126: the call has returned, new articles are added
UN_Fetched ==
  /\ un_pc = "fetching" /\ f_pc[Updater] = "done"
  /\ un_pc' = "loop" /\ un_k' = un_k + 1
  /\ un_failed' = un_failed + (IF f_ret[Updater] = "request failed" THEN 1 ELSE 0)
  /\ \E body \in ApiBodies :
       all_articles' = Collected(all_articles,
                                 IF f_ret[Updater] = "answered" THEN body
                                 ELSE [keys |-> {"error"}])
  /\ UNCHANGED <<article_count, max_requests, available_requests, remaining_then, un_ret,
                 trackerVars, saveVars, UN_Others>>
\* lines 129 and 330: the articles are handed to save_news_to_json
UN_Save ==
  /\ un_pc = "loop" /\ un_k > SliceLen(available_requests)
  /\ un_pc' = "saving" /\ SN_Called([keys |-> {"data"}, data |-> all_articles])
  /\ UNCHANGED <<un_failed, article_count, max_requests, available_requests, remaining_then, un_k,
                 all_articles, un_ret, trackerVars, UN_Others>>
\* line 330: update_news returns what save_news_to_json returned
UN_Return ==
  /\ un_pc = "saving" /\ sn_pc = "done"
  /\ un_pc' = "done" /\ un_ret' = sn_ret
  /\ UNCHANGED <<un_failed, article_count, max_requests, available_requests, remaining_then, un_k,
                 all_articles, trackerVars, saveVars, UN_Others>>

(***************************************************************************)
(* The specifications: one per function under study.                       *)
(***************************************************************************)
\* enhance_title(t, m) for the titles and target lengths above
InitTitle ==
  /\ \E t \in Titles, m \in MaxLengths : ET_Call(t, m)
  /\ CA_Idle /\ EIS_Idle /\ ST_Idle /\ FA_Idle /\ SV_Idle /\ TR_Idle /\ UN_Idle /\ SN_Idle
  /\ env = NothingInstalled /\ TRANSFORMERS_AVAILABLE = FALSE
NextTitle ==
  \/ ET_Empty \/ ET_StripTickers \/ ET_StripPrefix \/ ET_StripEllipsis
  \/ ET_StripWhitespace \/ ET_RemoveFiller \/ ET_Capitalize \/ ET_StripCompany
  \/ ET_Concise \/ ET_TooLong
  \/ ET_ColonReturn \/ ET_ColonRaise \/ ET_ColonPass
  \/ ET_DashReturn \/ ET_DashPass \/ ET_BreakReturn \/ ET_BreakPass
  \/ ET_LastSpaceReturn \/ ET_LastSpacePass \/ ET_KeepOriginal \/ ET_HardTruncate
SpecTitle == InitTitle /\ [][NextTitle]_vars

\* clean_article_text(x), and then clean_article_text of the result
InitClean ==
  /\ \E x \in CleanTexts : CA_Call(x)
  /\ ET_Idle /\ EIS_Idle /\ ST_Idle /\ FA_Idle /\ SV_Idle /\ TR_Idle /\ UN_Idle /\ SN_Idle
  /\ env = NothingInstalled /\ TRANSFORMERS_AVAILABLE = FALSE
NextClean ==
  \/ CA_Empty \/ CA_Begin \/ CA_RemoveBoilerplate \/ CA_TidySpace \/ CA_Again
SpecClean == InitClean /\ [][NextClean]_vars

\* extract_important_sentences(t, k, m, ttl) under each set of installed
\* resources
InitSelect ==
  /\ \E t \in SelectTexts, k \in SelectKeywords, m \in 1 .. MaxSentencesBound,
        ttl \in SelectTitles :
       EIS_Call(t, k, m, ttl)
  /\ ET_Idle /\ CA_Idle /\ ST_Idle /\ FA_Idle /\ SV_Idle /\ TR_Idle /\ UN_Idle /\ SN_Idle
  /\ env \in Envs /\ TRANSFORMERS_AVAILABLE = FALSE
NextSelect ==
  \/ EIS_Tokenize \/ EIS_Failure \/ EIS_Score \/ EIS_Top
  \/ EIS_ForceFirst \/ EIS_KeepTop \/ EIS_Return
SpecSelect == InitSelect /\ [][NextSelect]_vars

\* summarize_text(x, title_text=t), with and without the transformers package.
\* The text it hands to clean_article_text has 20 characters or more, so that
\* CA_Empty is no step of it.
InitSummarize ==
  /\ \E x \in {None} \cup {Some(a) : a \in Articles}, t \in ArticleTitles : ST_Call(x, t)
  /\ ET_Idle /\ CA_Idle /\ EIS_Idle /\ FA_Idle /\ SV_Idle /\ TR_Idle /\ UN_Idle /\ SN_Idle
  /\ env = NothingInstalled /\ TRANSFORMERS_AVAILABLE \in BOOLEAN
NextSummarize ==
  \/ ST_NoContent \/ ST_Clean \/ ST_Cleaned
  \/ ST_NoModel \/ ST_ModelFails \/ ST_ModelAccepted \/ ST_ModelRejected
  \/ ST_Ensure \/ ST_EnsureRaises \/ ST_Keywords
  \/ ST_KeepFirst \/ ST_DropFirst \/ ST_SelectMore \/ ST_PickOther
  \/ ST_Format \/ ST_Expand \/ ST_NoExpand \/ ST_Expanded
  \/ ST_NoEllipsis \/ ST_Ellipsis
  \/ ST_NoGuard \/ ST_GuardRaises \/ ST_GuardFew \/ ST_GuardAlt
  \/ ST_AltReturn \/ ST_AltTooShort
  \/ ST_FallbackSentences \/ ST_FallbackParagraph \/ ST_FallbackTruncate
  \/ CA_Begin \/ CA_RemoveBoilerplate \/ CA_TidySpace
  \/ EIS_Tokenize \/ EIS_Failure \/ EIS_Score \/ EIS_Top
  \/ EIS_ForceFirst \/ EIS_KeepTop \/ EIS_Return
SpecSummarize == InitSummarize /\ [][NextSummarize]_vars

\* format_articles(d), with and without the transformers package
InitFormat ==
  /\ \E d \in FormatResponses : FA_Call(d)
  /\ ET_Idle /\ CA_Idle /\ EIS_Idle /\ ST_Idle /\ SV_Idle /\ TR_Idle /\ UN_Idle /\ SN_Idle
  /\ env = NothingInstalled /\ TRANSFORMERS_AVAILABLE \in BOOLEAN
NextFormat ==
  \/ FA_NoData \/ FA_Begin \/ FA_Title \/ FA_TitleNone \/ FA_KeepEnhanced \/ FA_UseOriginal
  \/ FA_KeepSummary \/ FA_Alternative \/ FA_KeepAlternative \/ FA_Generic
  \/ FA_Append \/ FA_Return
  \/ ET_Empty \/ ET_StripTickers \/ ET_StripPrefix \/ ET_StripEllipsis
  \/ ET_StripWhitespace \/ ET_RemoveFiller \/ ET_Capitalize \/ ET_StripCompany
  \/ ET_Concise \/ ET_TooLong
  \/ ET_ColonReturn \/ ET_ColonRaise \/ ET_ColonPass
  \/ ET_DashReturn \/ ET_DashPass \/ ET_BreakReturn \/ ET_BreakPass
  \/ ET_LastSpaceReturn \/ ET_LastSpacePass \/ ET_KeepOriginal \/ ET_HardTruncate
  \/ ST_NoContent \/ ST_Clean \/ ST_Cleaned
  \/ ST_NoModel \/ ST_ModelFails \/ ST_ModelAccepted \/ ST_ModelRejected
  \/ ST_Ensure \/ ST_EnsureRaises \/ ST_Keywords
  \/ ST_KeepFirst \/ ST_DropFirst \/ ST_SelectMore \/ ST_PickOther
  \/ ST_Format \/ ST_Expand \/ ST_NoExpand \/ ST_Expanded
  \/ ST_NoEllipsis \/ ST_Ellipsis
  \/ ST_NoGuard \/ ST_GuardRaises \/ ST_GuardFew \/ ST_GuardAlt
  \/ ST_AltReturn \/ ST_AltTooShort
  \/ ST_FallbackSentences \/ ST_FallbackParagraph \/ ST_FallbackTruncate
  \/ CA_Begin \/ CA_RemoveBoilerplate \/ CA_TidySpace
  \/ EIS_Tokenize \/ EIS_Failure \/ EIS_Score \/ EIS_Top
  \/ EIS_ForceFirst \/ EIS_KeepTop \/ EIS_Return
SpecFormat == InitFormat /\ [][NextFormat]_vars

\* the serving process from its start: requests come in on every thread
InitServer ==
  /\ SV_Idle
  /\ ET_Idle /\ CA_Idle /\ EIS_Idle /\ ST_Idle /\ FA_Idle /\ TR_Idle /\ UN_Idle /\ SN_Idle
  /\ env = NothingInstalled /\ TRANSFORMERS_AVAILABLE \in BOOLEAN
NextServer ==
  \E w \in Workers :
    \/ \E x \in WorkerTexts : SV_Call(w, x)
    \/ SV_ImportBegin(w) \/ SV_ImportEnd(w) \/ SV_ImportRaises(w) \/ SV_Imported(w)
    \/ SV_NoContent(w) \/ SV_Model(w)
    \/ SV_EnsureBegin(w) \/ SV_EnsureEnd(w) \/ SV_EnsureRaises(w)
SpecServer == InitServer /\ [][NextServer]_vars

\* the usage tracker from its construction: fetches on every thread
InitTracker ==
  /\ \E n \in StartCounts : TR_Loaded(n)
  /\ ET_Idle /\ CA_Idle /\ EIS_Idle /\ ST_Idle /\ FA_Idle /\ SV_Idle /\ UN_Idle /\ SN_Idle
  /\ env = NothingInstalled /\ TRANSFORMERS_AVAILABLE = FALSE
NextTracker ==
  \/ \E f \in Fetchers :
       \/ TR_Call(f) \/ TR_Stats(f) \/ TR_Refused(f) \/ TR_Allowed(f)
       \/ TR_Send(f) \/ TR_SendFails(f) \/ TR_Record(f) \/ TR_ReadFails(f)
  \/ TR_Midnight
SpecTracker == InitTracker /\ [][NextTracker]_vars


\* what format_articles does with articles that have a short title and no
\* description
NextPlainArticles ==
  \/ FA_Begin \/ FA_Title \/ FA_KeepEnhanced \/ FA_KeepSummary
  \/ FA_Append \/ FA_Return
  \/ ET_StripTickers \/ ET_StripPrefix \/ ET_StripEllipsis \/ ET_StripWhitespace
  \/ ET_RemoveFiller \/ ET_Capitalize \/ ET_StripCompany \/ ET_Concise
  \/ ST_NoContent

\* save_news_to_json(d) over the file an earlier update left
InitSave ==
  /\ \E d \in SaveResponses : SN_Call(d)
  /\ ET_Idle /\ CA_Idle /\ EIS_Idle /\ ST_Idle /\ FA_Idle /\ SV_Idle /\ UN_Idle
  /\ \E n \in StartCounts : TR_Loaded(n)
  /\ env = NothingInstalled /\ TRANSFORMERS_AVAILABLE = FALSE
NextSave ==
  \/ SN_Format \/ SN_NoArticles \/ SN_NoFile \/ SN_Archive \/ SN_ArchiveFails
  \/ SN_Write \/ SN_WriteFails
  \/ TR_Midnight
  \/ FA_NoData \/ NextPlainArticles
SpecSave == InitSave /\ [][NextSave]_vars

\* update_news(n) on the day the tracker was built or a later one, over the
\* file an earlier update left.  The call is over before midnight and no
\* other thread fetches, so can_make_request does not refuse a request the
\* loop was given (SpecTracker has both), and at most MaxFailed requests fail
InitUpdate ==
  /\ \E n \in ArticleCounts : UN_Call(n)
  /\ \E n \in StartCounts, day \in Days : TR_LoadedBefore(n, day)
  /\ SN_Waiting
  /\ ET_Idle /\ CA_Idle /\ EIS_Idle /\ ST_Idle /\ FA_Idle /\ SV_Idle
  /\ env = NothingInstalled /\ TRANSFORMERS_AVAILABLE = FALSE
NextUpdate ==
  \/ UN_Begin \/ UN_NoneLeft \/ UN_Loop \/ UN_Fetch \/ UN_Fetched \/ UN_Save \/ UN_Return
  \/ TR_Stats(Updater) \/ TR_Allowed(Updater)
  \/ TR_Send(Updater) \/ TR_Record(Updater)
  \/ (un_failed < MaxFailed /\ TR_SendFails(Updater))
  \/ (un_failed < MaxFailed /\ TR_ReadFails(Updater))
  \/ SN_Format \/ SN_NoArticles \/ SN_NoFile \/ SN_Archive \/ SN_ArchiveFails
  \/ SN_Write \/ SN_WriteFails
  \/ NextPlainArticles
SpecUpdate == InitUpdate /\ [][NextUpdate]_vars

(***************************************************************************)
(* The properties.                                                         *)
(***************************************************************************)
\* the return statements of summarize_text's except block (lines 680-694)
FallbackPaths == {"fallback_sentences", "fallback_paragraph", "fallback_truncate"}
\* the input text is a string with at least one character
NonEmptyText == text_arg # None /\ text_arg # Some("")

\* how far a call of summarize_text has come: the rank of its own step, and
\* below it the ranks of the sanitizer's and the selector's steps
StepOrder ==
  <<"start", "cleaning", "model", "ensure", "keywords", "selecting", "more", "format",
    "expand", "expanding", "ellipsis", "guard", "alt", "fallback", "done">>
SelectorOrder == <<"idle", "start", "score", "top", "first", "return", "done">>
RankIn(order, pc) == CHOOSE r \in 1 .. Len(order) : order[r] = pc
SanitizerRank ==
  CASE ca_pc \in {"idle", "start"} -> 0
    [] ca_pc = "patterns" -> ca_k
    [] ca_pc = "tidy" -> Len(boilerplate_patterns) + 1
    [] ca_pc = "done" -> Len(boilerplate_patterns) + 2
Measure ==
  RankIn(StepOrder, st_pc) * (Len(boilerplate_patterns) + Len(SelectorOrder) + 3)
    + SanitizerRank + RankIn(SelectorOrder, eis_pc)
\* a call that has not returned is at a step of its own or waits for a
\* function that is at one of its steps (the guards of the steps at one
\* point are each other's complements)
Running ==
  /\ st_pc \in Range(StepOrder)
  /\ st_pc = "cleaning" =>
       ca_pc \in {"patterns", "tidy", "done"} \/ (ca_pc = "start" /\ ca_text # "")
  /\ st_pc \in {"selecting", "more", "expanding", "alt"} =>
       eis_pc \in Range(SelectorOrder) \ {"idle"}

\* C1: for every non-empty input text, whatever the title, with or without
\* the model and with or without the tokenizer resources, summarize_text
\* comes to its end without raising (every step moves the call forward in a
\* bounded measure, and short of the end the call is never without a step),
\* what it returns is not the empty string, and a failure that the except
\* block has caught ends with one of the three fallback results.
C1_TerminatesNonEmpty ==
  /\ [](st_pc = "done" /\ NonEmptyText => st_ret # "")
  /\ [](st_pc # "done" => Running)
  /\ [][Measure' > Measure]_vars
  /\ [][st_pc = "fallback" => st_pc' = "done" /\ st_path' \in FallbackPaths]_vars
\* a call on a non-empty text whose failure was caught has returned
C1_Witness ==
  /\ st_pc = "done" /\ NonEmptyText /\ st_path \in FallbackPaths
  /\ "extract_important_sentences" \in st_calls /\ st_ret # ""

\* C2: the string summarize_text returns ends in '.', '!' or '?', on every
\* return path.
C2_EndsInPunctuation == st_pc = "done" => EndsWithPunct(st_ret)

\* C3: if the input text is absent, empty or shorter than 20 characters,
\* summarize_text returns exactly the no-content sentence, whatever the
\* title, and before it it has called nothing: not the sanitizer, not the
\* model, not the sentence selection.
C3_SentinelFirst ==
  (IF text_arg = None THEN TRUE ELSE Len(text_arg[1]) < 20) =>
    /\ st_pc \in {"start", "done"}
    /\ st_calls = {} /\ ca_pc = "idle" /\ eis_pc = "idle"
    /\ st_pc = "done" => st_ret = "No article content available to summarize."
\* a text of 15 characters under a title has been answered
C3_Witness ==
  /\ st_pc = "done" /\ text_arg = Some("Shares rose 5%.") /\ title_text = Some(ArticleTitle)
  /\ st_ret = NoContent /\ st_path = "sentinel"

\* C4: for every non-empty title and every max_length, enhance_title does
\* not return the empty string.
C4_NeverEmpty == et_pc = "done" /\ original_title # "" => et_ret # ""

\* C5: for every non-empty title and every max_length, what enhance_title
\* returns is at most max(max_length, len(original title)) long, on every
\* return path.
C5_LengthBound ==
  et_pc = "done" /\ original_title # "" =>
    Len(et_ret) <= Max({max_length, Len(original_title)})

\* a parenthesized EXCHANGE:TICKER annotation
TickerNote == <<Lit("("), Plus(UpperChars), Lit(":"), Plus(UpperChars), Lit(")")>>
\* C6: for every non-empty title, what enhance_title returns contains no
\* parenthesized EXCHANGE:TICKER annotation, whichever return path is taken.
C6_NoTickerNote ==
  et_pc = "done" /\ original_title # "" => ReSearch(TickerNote, et_ret)[1] = 0

\* C7: clean_article_text is idempotent: applied to its own result it
\* returns that result.
C7_Idempotent == ca_pc = "done" /\ ca_calls = 2 => ca_ret = ca_once

\* the sentences of a text that share no word with the title
Unrelated(article, title_words) ==
  {s \in Range(SentTokenize(article)) : LowerWords(s) \cap title_words = {}}
\* C8: when the source text is longer than 200 characters and has at least 5
\* distinct sentences that share no word with the title, the summary that
\* summarize_text composes (no failure caught on the way) shares fewer than
\* 0.7 of the title's words.
C8_LowTitleOverlap ==
  /\ st_pc = "done" /\ st_path \in {"summary", "alt"}
  /\ Truthy(title_text) /\ TitleWords(title_text) # {}
  /\ Len(text_arg[1]) > 200
  /\ Cardinality(Unrelated(text_arg[1], TitleWords(title_text))) >= 5
  => OverlapBelow(LowerWords(st_ret), TitleWords(title_text), 7)

\* the first sentence of a text; the text itself when it has none
FirstSentence(article) ==
  IF SentTokenize(article) = <<>> THEN article ELSE SentTokenize(article)[1]
\* a sentence is the title, or a part of it, or has it as a part (letter
\* case aside)
SameAsTitle(sentence, title_lower) ==
  \/ Lower(sentence) = title_lower
  \/ Contains(title_lower, Lower(sentence))
  \/ Contains(Lower(sentence), title_lower)
\* C9: when the first sentence of the text is the title (or a part of it, or
\* has it as a part) and the text has further sentences, the summary that
\* summarize_text composes (no failure caught on the way) does not contain
\* that sentence, and its first sentence differs from the title.
C9_TitleSentenceDropped ==
  /\ st_pc = "done" /\ st_path \in {"summary", "alt"}
  /\ Truthy(title_text)
  /\ Len(SentTokenize(text_arg[1])) >= 2
  /\ SameAsTitle(FirstSentence(text_arg[1]), Lower(title_text[1]))
  => /\ ~Contains(st_ret, FirstSentence(text_arg[1]))
     /\ ~SameAsTitle(FirstSentence(st_ret), Lower(title_text[1]))

\* C10: for max_sentences >= 1, extract_important_sentences returns at most
\* max_sentences sentences and no sentence index is chosen twice: also
\* after the opening sentence has been put in at the cost of another, and
\* when the function falls back on its failure result.
C10_BoundedDistinct ==
  eis_pc = "done" /\ max_sentences >= 1 =>
    /\ Len(selected_sentences) <= max_sentences
    /\ \A i, j \in 1 .. Len(top_sentence_indices) :
         i # j => top_sentence_indices[i] # top_sentence_indices[j]
\* the opening sentence has been put into a selection that was full
C10_Witness ==
  /\ eis_pc = "done" /\ eis_title_text # None
  /\ Len(TopIndices(sentence_scores, max_sentences)) >= max_sentences
  /\ ForcesFirst(TopIndices(sentence_scores, max_sentences), sentences,
                 LowerWords(eis_title_text[1]))
  /\ 0 \in Range(top_sentence_indices)
  /\ Len(selected_sentences) = max_sentences

\* the score of the sentence with index i: its entry in sentence_scores, and
\* 0 when no rule has made one
ScoreOrZero(i) ==
  IF \E item \in sentence_scores : item[1] = i THEN ScoreOf(sentence_scores, i) ELSE 0
\* the sentence of the text behind the k-th chosen index
ChosenSentence(k) == sentences[top_sentence_indices[k] + 1]
\* neither numeric content nor a keyword in the sentence
Plain(sentence) ==
  DataDeltas(sentence) = <<>> /\ KeywordDeltas(sentence, eis_keywords) = <<>>

\* C11: the sentences extract_important_sentences returns (no failure on the
\* way) stand in strictly increasing order of their index in the text,
\* whatever their scores and whether or not the opening sentence was put in;
\* and of a text of three sentences without numeric content and without a
\* keyword, all three are returned, in the order of the text.
C11_SourceOrder ==
  eis_pc = "done" /\ eis_title_text # None =>
    /\ \A k \in 1 .. Len(top_sentence_indices) - 1 :
         top_sentence_indices[k] < top_sentence_indices[k + 1]
    /\ Len(selected_sentences) = Len(top_sentence_indices)
    /\ \A k \in 1 .. Len(selected_sentences) :
         selected_sentences[k] \in {ChosenSentence(k), Strip(ChosenSentence(k)) \o "."}
    /\ (/\ Len(sentences) = 3 /\ max_sentences >= 3
        /\ \A k \in 1 .. 3 : Plain(sentences[k]))
         => top_sentence_indices = <<0, 1, 2>>

\* C12: a sentence of fewer than 5 words that is not the opening sentence is
\* not in the list extract_important_sentences returns (no failure on the
\* way), for every text, keyword list, title and max_sentences.
C12_NoShortSentence ==
  eis_pc = "done" /\ eis_title_text # None =>
    \A k \in 1 .. Len(top_sentence_indices) :
      top_sentence_indices[k] > 0 => WordCount(ChosenSentence(k)) >= 5

\* the tokens of a text that extract_keywords counts: lower-cased, without
\* punctuation, the stopwords of the list in use and the tokens of one or two
\* characters left out
CountedTokens(article, resources) ==
  SelectSeq(WordTokenize(WordsAndSpaces(article)),
            LAMBDA word : /\ word \notin (IF resources.stopwords THEN NltkStopWords
                                          ELSE BasicStopWords)
                          /\ Len(word) > 2)
Frequency(word, tokens) == Cardinality({k \in 1 .. Len(tokens) : tokens[k] = word})
FirstSeen(word, tokens) == Min({k \in 1 .. Len(tokens) : tokens[k] = word})
\* C14: extract_keywords(text, n), as summarize_text calls it (n = 8),
\* returns at most n tokens of the text, none of them a stopword or of length
\* <= 2, in descending order of their frequency among the counted tokens;
\* of two tokens of equal frequency the one seen first in the text comes
\* first, and no token left out is more frequent than a token returned.
C14_KeywordsByFrequency ==
  eis_pc = "start" /\ st_pc \in {"selecting", "alt"} =>
    LET tokens == CountedTokens(eis_text, env)
    IN /\ Len(eis_keywords) <= num_keywords
       /\ \A k \in 1 .. Len(eis_keywords) :
            /\ eis_keywords[k] \in Range(tokens)
            /\ eis_keywords[k] \notin (IF env.stopwords THEN NltkStopWords ELSE BasicStopWords)
            /\ Len(eis_keywords[k]) > 2
       /\ \A k, l \in 1 .. Len(eis_keywords) :
            k < l =>
              \/ Frequency(eis_keywords[k], tokens) > Frequency(eis_keywords[l], tokens)
              \/ /\ Frequency(eis_keywords[k], tokens) = Frequency(eis_keywords[l], tokens)
                 /\ FirstSeen(eis_keywords[k], tokens) < FirstSeen(eis_keywords[l], tokens)
       /\ \A word \in Range(tokens) \ Range(eis_keywords) :
            \A k \in 1 .. Len(eis_keywords) :
              Frequency(word, tokens) <= Frequency(eis_keywords[k], tokens)
\* eight keywords have been taken from a text with more counted tokens: the
\* first is a repeated one that is not the first token of the text, two of
\* them are equally frequent
C14_Witness ==
  /\ eis_pc = "start" /\ st_pc = "selecting" /\ Len(eis_keywords) = num_keywords
  /\ LET tokens == CountedTokens(eis_text, env)
     IN /\ Range(tokens) \ Range(eis_keywords) # {}
        /\ Frequency(eis_keywords[1], tokens) >= 2
        /\ FirstSeen(eis_keywords[1], tokens) > 1
        /\ Frequency(eis_keywords[2], tokens) = Frequency(eis_keywords[3], tokens)

\* the indices of all sentences by score, the higher first and among equal
\* scores the lower index first; a sentence without an entry counts 0
RanksBefore(i, j) ==
  ScoreOrZero(i) > ScoreOrZero(j) \/ (ScoreOrZero(i) = ScoreOrZero(j) /\ i < j)
Ranking ==
  Listed([r \in 1 .. Len(sentences) |->
            CHOOSE i \in 0 .. Len(sentences) - 1 :
              Cardinality({j \in 0 .. Len(sentences) - 1 : RanksBefore(j, i)}) = r - 1])
\* C17: before the opening-sentence rule is applied, the chosen indices are
\* the first max_sentences entries of the list of all sentence indices by
\* score descending and index ascending, a sentence no scoring rule applied
\* to counting 0; so no sentence left out has a higher score than a chosen one.
C17_TopByScore ==
  eis_pc = "first" =>
    /\ top_sentence_indices = SubSeq(Ranking, 1, Min({max_sentences, Len(sentences)}))
    /\ \A i \in (0 .. Len(sentences) - 1) \ Range(top_sentence_indices) :
         \A k \in 1 .. Len(top_sentence_indices) :
           ScoreOrZero(i) <= ScoreOrZero(top_sentence_indices[k])

\* C18: when the opening sentence is not among the top-scored selection, has
\* at least 5 words and shares less than 0.6 of the title's words (an empty
\* title counting as a ratio of 0), extract_important_sentences returns it;
\* a selection at capacity has lost exactly one sentence for it, one of the
\* lowest score among those selected, and a selection under capacity none.
C18_OpeningForced ==
  LET before == TopIndices(sentence_scores, max_sentences)
      title_words == LowerWords(eis_title_text[1])
  IN (/\ eis_pc = "done" /\ eis_title_text # None /\ sentences # <<>>
      /\ 0 \notin Range(before) /\ WordCount(sentences[1]) >= 5
      /\ IF title_words = {} THEN TRUE
         ELSE Cardinality(LowerWords(sentences[1]) \cap title_words) * 10
                < 6 * Cardinality(title_words))
     => /\ 0 \in Range(top_sentence_indices)
        /\ selected_sentences[1] \in {sentences[1], Strip(sentences[1]) \o "."}
        /\ IF Len(before) >= max_sentences
           THEN \E k \in 1 .. Len(before) :
                  /\ Range(top_sentence_indices) = (Range(before) \ {before[k]}) \cup {0}
                  /\ \A h \in 1 .. Len(before) :
                       ScoreOrZero(before[k]) <= ScoreOrZero(before[h])
           ELSE Range(top_sentence_indices) = Range(before) \cup {0}

\* the points the claims give for the share of the title's words in a
\* sentence, and for the place i of a sentence among n
ClaimedTitlePoints(sentence_words, title_words) ==
  LET shared == Cardinality(sentence_words \cap title_words)
      all == Cardinality(title_words)
  IN IF all = 0 THEN 0
     ELSE IF shared * 10 > 7 * all THEN -5
     ELSE IF shared * 10 > 5 * all THEN -3
     ELSE IF shared * 10 < 2 * all THEN 2
     ELSE 0
ClaimedPositionPoints(i, n) ==
  IF i = 0 THEN 5
  ELSE IF i = 1 THEN 3
  ELSE IF i < n \div 3 THEN 2
  ELSE IF i * 3 >= 2 * n THEN 1
  ELSE 0
\* what the title rule has added to the score of sentence i: the score less
\* what the four other rules add
TitlePoints(i) ==
  ScoreOrZero(i)
    - Sum(KeywordDeltas(sentences[i + 1], eis_keywords) \o PositionDeltas(i, Len(sentences))
            \o LengthDeltas(sentences[i + 1]) \o DataDeltas(sentences[i + 1]))
\* what the position rule has added to the score of sentence i
PositionPoints(i) ==
  ScoreOrZero(i)
    - Sum(TitleDeltas(sentences[i + 1], LowerWords(eis_title_text[1]))
            \o KeywordDeltas(sentences[i + 1], eis_keywords)
            \o LengthDeltas(sentences[i + 1]) \o DataDeltas(sentences[i + 1]))

\* C19: what the title adds to the score of a sentence depends only on
\* r = |sentence words shared with the title| / |title words|: -5 if r > 0.7,
\* else -3 if r > 0.5, else +2 if r < 0.2, else 0, and 0 when the title has
\* no words; it comes on top of what the four other rules add.
C19_TitleContribution ==
  eis_pc = "top" =>
    \A i \in 0 .. Len(sentences) - 1 :
      TitlePoints(i) = ClaimedTitlePoints(LowerWords(sentences[i + 1]),
                                          LowerWords(eis_title_text[1]))
\* a text has been scored under a title that costs one of its sentences 5
\* points and another 3, gives a third 2 and leaves a fourth as it is
C19_Witness ==
  /\ eis_pc = "top" /\ LowerWords(eis_title_text[1]) # {}
  /\ \A points \in {-5, -3, 2, 0} :
       \E i \in 0 .. Len(sentences) - 1 : TitlePoints(i) = points

\* C20: the place of a sentence adds +5 at index 0, +3 at index 1, otherwise
\* +2 in the first third of the sentences, otherwise +1 in the last third
\* (i >= 2n/3), otherwise 0; so the last sentence of a text of 3, 4 or 5
\* sentences gets +1, and the sentences 0 and 1 get more than any later one.
C20_PositionContribution ==
  eis_pc = "top" =>
    \A i \in 0 .. Len(sentences) - 1 :
      /\ PositionPoints(i) = ClaimedPositionPoints(i, Len(sentences))
      /\ i >= 2 => PositionPoints(i) < PositionPoints(1) /\ PositionPoints(i) < PositionPoints(0)


(***************************************************************************)
(* format_articles: the title of a record.                                 *)
(***************************************************************************)
\* the title format_articles reads from the article at place k (line 195)
InputTitle(k) == Get(news_data.data[k], "title", Some("No Title"))
\* the record of the article that was processed last, once it is appended
LastRecord == articles[Len(articles)]
Appended == fa_pc \in {"article", "done"} /\ articles # <<>>

\* C15: every record format_articles has appended carries the article's title
\* unchanged as its original_title; where that title is a non-empty string the
\* record's title is non-empty; and where enhance_title returned the empty
\* string for such a title the record's title is the original title.
C15_TitleFallback ==
  /\ \A k \in 1 .. Len(articles) :
        /\ articles[k].original_title = InputTitle(k)
        /\ "title" \in news_data.data[k].keys
             => articles[k].original_title = news_data.data[k].title
        /\ Truthy(InputTitle(k)) => Truthy(articles[k].title)
  /\ Appended /\ Truthy(LastRecord.original_title) /\ et_ret = ""
       => LastRecord.title = LastRecord.original_title
\* the record of a non-empty title for which enhance_title returned the empty
\* string
C15_Witness ==
  /\ Appended /\ Truthy(LastRecord.original_title) /\ et_ret = ""
  /\ LastRecord.title = LastRecord.original_title
  /\ LastRecord.title # ""

(***************************************************************************)
(* The serving process: the resource bundle.                               *)
(***************************************************************************)
\* C13: ensure_nltk_resources is executed at most once in the life of the
\* process, the import of the module and all calls of summarize_text taken
\* together, and no two threads are in it at the same time.
C13_InitializedOnce == downloads <= 1 /\ Cardinality(in_ensure) <= 1

(***************************************************************************)
(* The API usage tracker.                                                  *)
(***************************************************************************)
\* C16: under every interleaving of the threads in fetch_marketaux_news the
\* counter requests_today is at most DAILY_REQUEST_LIMIT, and on no day are
\* more requests sent than the limit allows.
C16_WithinDailyLimit ==
  /\ usage_data.requests_today <= DAILY_REQUEST_LIMIT
  /\ \A d \in Days : sent[d] <= DAILY_REQUEST_LIMIT

(***************************************************************************)
(* summarize_text: the model's summary and the extractive path.            *)
(***************************************************************************)
\* the share of the title's words that a summary has is under 7 tenths
FewTitleWords(summary_text, title_value) ==
  LET title_set == LowerWords(title_value[1])
  IN Cardinality(LowerWords(summary_text) \cap title_set) * 10 < 7 * Cardinality(title_set)
\* the locals of summarize_text as they are when line 594 is reached with no
\* model at all
ExtractiveEntry ==
  /\ text = ca_ret /\ ca_arg = text_arg[1] /\ ca_pc = "done"
  /\ keywords = <<>> /\ important_sentences = <<>> /\ summary = ""
  /\ st_ret = "" /\ st_path = "none" /\ eis_pc = "idle"
ThroughExtractive == "ensure_nltk_resources" \in st_calls
ModelTried == "summarize_with_transformers" \in st_calls

\* C21: what summarize_text returns from the model is a model summary whose
\* share of title words is under 0.7, or the title has no words; without a
\* model, and when the model fails or its summary is turned down, line 594 is
\* reached in the state it is reached in with no model, and every result other
\* than the sentinel and the model's summary comes from there.
C21_ModelOrExtractive ==
  /\ st_path = "model"
       => /\ TRANSFORMERS_AVAILABLE /\ ModelTried /\ ~ThroughExtractive
          /\ st_ret \in {TransformerSummary(o) : o \in ModelOutputs}
          /\ IF Truthy(title_text) THEN LowerWords(title_text[1]) = {} \/ FewTitleWords(st_ret, title_text)
             ELSE TRUE
  /\ st_pc = "ensure" => ExtractiveEntry /\ (ModelTried <=> TRANSFORMERS_AVAILABLE)
  /\ st_pc = "done" /\ st_path \notin {"sentinel", "model"} => ThroughExtractive
  /\ st_pc \notin {"idle", "start", "cleaning", "model", "done"} => st_pc = "ensure" \/ ThroughExtractive
\* the extractive summary of a titled article, returned after the model was
\* tried
C21_Witness ==
  /\ st_pc = "done" /\ st_path = "summary" /\ ModelTried /\ ThroughExtractive
  /\ Truthy(title_text) /\ Len(st_ret) > 100

(***************************************************************************)
(* summarize_text: the expansion of a short summary.                       *)
(***************************************************************************)
\* the summary composed at lines 624-627
Composed == TidySpace(format_summary(important_sentences))
\* extract_important_sentences has run on the arguments of line 632
Reselected ==
  /\ eis_pc = "done" /\ eis_text = text /\ eis_keywords = keywords
  /\ max_sentences = 6 /\ eis_title_text = title_text

\* C22: past lines 630-633 the summary is the composition of a new selection
\* with max_sentences = 6, the same keywords and the same title, of at most 6
\* sentences, when the composed summary had fewer than 100 characters and the
\* sanitized text has more than 500; otherwise it is the composed summary.
C22_ExpandsShortSummary ==
  st_pc = "ellipsis"
    => IF Len(Composed) < 100 /\ Len(text) > 500
       THEN /\ Reselected /\ summary = format_summary(selected_sentences)
            /\ Len(selected_sentences) <= 6
       ELSE summary = Composed
\* a short summary of a long text, replaced by one of more sentences
C22_Witness ==
  /\ st_pc = "ellipsis" /\ Len(Composed) < 100 /\ Len(text) > 500
  /\ Reselected /\ summary = format_summary(selected_sentences) /\ summary # Composed
  /\ Len(selected_sentences) > Len(important_sentences)

(***************************************************************************)
(* summarize_text: the final overlap guard.                                *)
(***************************************************************************)
\* the summary of the text without its first two sentences, keywords and
\* selection computed anew (lines 666-669)
AltSummary ==
  LET alt_text == AltText(SentTokenize(text))
      alt_sentences == Sentences(alt_text, env)
      alt_scores == SentenceScores(alt_sentences, extract_keywords(alt_text, env), {})
  IN format_summary(SelectedSentences(alt_sentences, TopIndices(alt_scores, 4)))
\* the summary has more than 7 tenths of the title's words and the text more
\* than 5 sentences
GuardClaimed ==
  /\ Truthy(title_text) /\ TitleWords(title_text) # {}
  /\ Cardinality(LowerWords(summary) \cap TitleWords(title_text)) * 10
       > 7 * Cardinality(TitleWords(title_text))
  /\ Len(SentTokenize(text)) > 5

\* C23: what summarize_text returns past the final guard is the alternative
\* summary when the guard's condition holds and the alternative has 100
\* characters or more, and the composed summary in every other case.
C23_FinalGuard ==
  st_pc = "done" /\ st_path \in {"summary", "alt"}
    => st_ret = IF GuardClaimed /\ Len(AltSummary) >= 100 THEN AltSummary ELSE summary

(***************************************************************************)
(* enhance_title: the last resort.                                         *)
(***************************************************************************)
\* the first k characters of the title end where a word ends, or are none
AtWordBoundary(k) == k = 0 \/ k = Len(title) \/ Ch(title, k + 1) = " "

\* C24: when enhance_title returns from lines 544-552, it returns the
\* original title if that is at most 125% of max_length long; otherwise it
\* returns the first k characters of the normalized title and "...", for a
\* k <= max_length - 3 at which a word ends, so at most max_length characters.
C24_LastResort ==
  et_pc = "done" /\ et_path \in {"original", "truncate"}
    => IF Len(original_title) * 100 <= max_length * 125
       THEN et_ret = original_title
       ELSE /\ Len(et_ret) <= max_length
            /\ \E k \in 0 .. max_length - 3 :
                 et_ret = SubSeq(title, 1, k) \o "..." /\ AtWordBoundary(k)

(***************************************************************************)
(* extract_important_sentences: how many sentences are returned.           *)
(***************************************************************************)
\* C26: when extract_important_sentences returns from line 224 (no failure
\* inside), it returns min(max_sentences, n) sentences of the n the text has.
C26_AsManyAsAsked ==
  eis_pc = "done" /\ eis_title_text # None
    => Len(selected_sentences) = Min({max_sentences, Len(sentences)})

(***************************************************************************)
(* The API usage tracker: every request is counted.                        *)
(***************************************************************************)
\* no thread is inside fetch_marketaux_news
Quiescent == \A f \in Fetchers : f_pc[f] \in {"idle", "done"}

\* C27: on the day the tracker was loaded, whenever no call of
\* fetch_marketaux_news is under way, requests_today is the number of
\* requests sent that day and total_requests the number sent overall.
C27_EveryRequestRecorded ==
  Quiescent /\ today = 0
    => /\ usage_data.requests_today = sent[0]
       /\ usage_data.total_requests = sent[0]

\* format_articles has returned an empty list to save_news_to_json
NoArticles == sn_pc \in {"formatting", "done"} /\ fa_pc = "done" /\ articles = <<>>
InArchive(file) == \E k \in 1 .. Len(archive) : archive[k] = file
\* C28: save_news_to_json called with a response that yields no article
\* returns 0 and leaves the current file and the archive as they were; and
\* whenever the current file is overwritten, what it held is in the archive
C28_ArchivedBeforeOverwrite ==
  /\ [](NoArticles => /\ archive = <<>> /\ current_file \in StartFiles
                      /\ (sn_pc = "done" => sn_ret = 0))
  /\ [][current_file # <<>> /\ current_file' # current_file => InArchive(current_file[1])]_vars

\* the least number of requests of three articles each that give n articles
CeilThird(n) == CHOOSE c \in 0 .. n : 3 * c >= n /\ 3 * (c - 1) < n
TickerPosition(t) == CHOOSE k \in 1 .. Len(batmmaan_tickers) : batmmaan_tickers[k] = t
\* fetch_news_by_tickers has read the number of requests that remain
RemainingRead == un_pc \notin {"idle", "start", "remaining"}
\* C25: one call update_news(article_count) sends at most
\* min(ceil(article_count / 3), 8, requests remaining when the call reads them)
\* requests, at most one for a ticker and in the order of the ticker list, and
\* sends none and returns 0 when no request remains
C25_BoundedOrderedRequests ==
  /\ ~RemainingRead => wire = <<>>
  /\ RemainingRead => Len(wire) <= Min({CeilThird(article_count), 8, remaining_then})
  /\ \A i \in 1 .. Len(wire) :
       /\ \E k \in 1 .. Len(batmmaan_tickers) : batmmaan_tickers[k] = wire[i]
       /\ \A j \in 1 .. Len(wire) :
            i < j => TickerPosition(wire[i]) < TickerPosition(wire[j])
  /\ RemainingRead /\ remaining_then <= 0 => wire = <<>> /\ (un_pc = "done" => un_ret = 0)
\* an update that asked for eight requests when two remained has sent two
C25_Witness ==
  /\ un_pc = "done" /\ max_requests = 8 /\ remaining_then = 2
  /\ wire = <<"AVGO", "AMZN">> /\ un_ret > 0
=============================================================================
